---- MODULE Spec2Model ----
(***************************************************************************)
(* The authentication backend of AI Mini Games (src/auth_backend.py): the  *)
(* in-memory user store, the JWT codec and the route handlers, as a state  *)
(* machine.                                                                *)
(*                                                                         *)
(* Scheduling.  Every route handler is an `async def` without an await in  *)
(* its body, and uvicorn.run(app) serves all requests from one event loop: *)
(* a handler, together with the dependencies resolved for it, runs to      *)
(* completion before the next request is handled.  One action is therefore *)
(* one whole request; concurrent callers are requests in flight that the   *)
(* loop handles in any order.                                              *)
(*                                                                         *)
(* Time.  The clock counts ticks of LOGIN_TIMEOUT_MINUTES minutes, the     *)
(* shortest duration of the program.  A JWT carries iat and exp as whole   *)
(* seconds, so two tokens minted within one second for the same user and   *)
(* type are the same string: requests handled at the same tick are the     *)
(* requests of one clock second.  The expiry the ledger records for a      *)
(* refresh token is a datetime with its microseconds, which falls within   *)
(* the second the token carries as exp: usec tells the requests early in a *)
(* second from those later in it.                                          *)
(***************************************************************************)
EXTENDS Integers, Sequences, FiniteSets, TLC

\* ------------------------------------------------------------- bounds
MaxTime == 3
MaxUsers == 1
MaxResets == 1
NCallers == 2
MaxIssued == 4
\* reset tokens sent where several are outstanding at once
MaxOutstanding == 2

\* ------------------------------------------------ Settings (program)
ACCESS_TOKEN_EXPIRE_MINUTES == 30
REFRESH_TOKEN_EXPIRE_DAYS == 7
MAX_LOGIN_ATTEMPTS == 5
LOGIN_TIMEOUT_MINUTES == 15
PASSWORD_MIN_LENGTH == 8
PASSWORD_MAX_LENGTH == 128
RESET_TOKEN_EXPIRE_HOURS == 1

SECRET_KEY == "secret"

\* timedelta(minutes=), timedelta(hours=), timedelta(days=) in clock ticks
Minutes(m) == m \div LOGIN_TIMEOUT_MINUTES
Hours(h) == Minutes(60 * h)
Days(d) == Hours(24 * d)

\* ------------------------------------------------------------ inputs
ADMIN_ID == 0
ADMIN_EMAIL == "admin@aimini.games"
ADMIN_USERNAME == "admin"
ADMIN_PASSWORD == "Admin123!"
ADMIN_FULL_NAME == "System Administrator"

Emails == {ADMIN_EMAIL, "a@x.com"}
Usernames == {ADMIN_USERNAME, "alice", "Alice"}
Passwords == {ADMIN_PASSWORD, "Passw0rd1"}
UserIds == 0 .. MaxUsers
ResetIds == 1 .. MaxResets
Callers == 1 .. NCallers

\* str.lower() on the usernames of the model
Lower(s) ==
    CASE s \in {"Alice", "ALICE"} -> "alice"
      [] s = "Admin" -> "admin"
      [] OTHER -> s

\* Optional[T]: None is the empty set, a value x is {x}
None == {}
Some(x) == {x}
The(o) == CHOOSE x \in o : TRUE

\* the optional full_name of a profile update
FullNames == {None, Some("A. Player")}

\* dict operations
Put(d, k, v) == [x \in DOMAIN d \cup {k} |-> IF x = k THEN v ELSE d[x]]
Pop(d, ks) == [x \in DOMAIN d \ ks |-> d[x]]
EmptyDict == [x \in {} |-> {}]

\* ------------------------------------------------------- Security
\* passlib's bcrypt context: the digest is not the password, and it verifies
\* exactly the password it was made from
get_password_hash(password) == <<"bcrypt", password>>
verify_password(plain_password, hashed_password) ==
    hashed_password = <<"bcrypt", plain_password>>

\* jwt.encode: the payload signed as one unit; exp and iat are whole clock
\* values, so the token is a function of (user, type, clock)
create_token(data, token_type, expires_delta, t) ==
    [user_id |-> data.user_id, username |-> data.username, type |-> token_type,
     exp |-> t + expires_delta, iat |-> t, sig |-> SECRET_KEY]

\* decode_token that does not look at exp
decode_token_unexpiring(token, t) ==
    IF token.sig = SECRET_KEY
    THEN Some([user_id |-> token.user_id, username |-> token.username,
               type |-> token.type])
    ELSE None

\* jwt.decode: the payload, or None for a bad signature or an expired token
\* (python-jose rejects exp < now)
decode_token(token, t) ==
    IF token.sig = SECRET_KEY /\ ~(token.exp < t)
    THEN Some([user_id |-> token.user_id, username |-> token.username,
               type |-> token.type])
    ELSE None

\* ------------------------------------------------------------- Models
\* A password as the sequence of its characters, for the validators that
\* look at the characters; str.isdigit, str.isupper and str.islower on ASCII.
IsDigit(ch) == ch \in {"0", "1", "2", "3", "4", "5", "6", "7", "8", "9"}
IsUpper(ch) ==
    ch \in {"A", "B", "C", "D", "E", "F", "G", "H", "I", "J", "K", "L", "M",
            "N", "O", "P", "Q", "R", "S", "T", "U", "V", "W", "X", "Y", "Z"}
IsLower(ch) ==
    ch \in {"a", "b", "c", "d", "e", "f", "g", "h", "i", "j", "k", "l", "m",
            "n", "o", "p", "q", "r", "s", "t", "u", "v", "w", "x", "y", "z"}
HasDigit(v) == \E i \in 1 .. Len(v) : IsDigit(v[i])
HasUpper(v) == \E i \in 1 .. Len(v) : IsUpper(v[i])
HasLower(v) == \E i \in 1 .. Len(v) : IsLower(v[i])

\* UserCreate.validate_password without the test for an uppercase letter
validate_password_any_case(v) ==
    IF Len(v) < PASSWORD_MIN_LENGTH
    THEN "Password must be at least 8 characters long"
    ELSE IF ~HasDigit(v)
    THEN "Password must contain at least one digit"
    ELSE IF ~HasLower(v)
    THEN "Password must contain at least one lowercase letter"
    ELSE ""

\* UserCreate.validate_password: the message of the ValueError raised, "" for
\* a password returned
validate_password(v) ==
    IF Len(v) < PASSWORD_MIN_LENGTH
    THEN "Password must be at least 8 characters long"
    ELSE IF ~HasDigit(v)
    THEN "Password must contain at least one digit"
    ELSE IF ~HasUpper(v)
    THEN "Password must contain at least one uppercase letter"
    ELSE IF ~HasLower(v)
    THEN "Password must contain at least one lowercase letter"
    ELSE ""

\* UserCreate(password, confirm_password): the Field constraints of password,
\* its validator, then passwords_match; the first error, "" for a valid model
UserCreate(password, confirm_password) ==
    IF Len(password) < PASSWORD_MIN_LENGTH
    THEN "String should have at least 8 characters"
    ELSE IF Len(password) > PASSWORD_MAX_LENGTH
    THEN "String should have at most 128 characters"
    ELSE IF validate_password(password) # ""
    THEN validate_password(password)
    ELSE IF confirm_password # password
    THEN "Passwords do not match"
    ELSE ""

\* --------------------------------------------------- InMemoryUserStore
\* datetime.now(timezone.utc).microsecond: 0 early in the clock second, 1
\* later in it.  A JWT keeps whole seconds only (jwt.encode truncates exp and
\* iat); the ledger keeps the datetime it is given, microseconds included.
VARIABLE usec

UserInDB(email, username, hashed_password, role) ==
    [email |-> email, username |-> username, full_name |-> None,
     hashed_password |-> hashed_password,
     role |-> role, is_active |-> TRUE, last_login |-> None,
     failed_login_attempts |-> 0, locked_until |-> None]

\* __init__ and _init_admin_user
NewStore ==
    [users |-> Put(EmptyDict, ADMIN_ID,
                   [UserInDB(ADMIN_EMAIL, ADMIN_USERNAME,
                             get_password_hash(ADMIN_PASSWORD), "admin")
                       EXCEPT !.full_name = Some(ADMIN_FULL_NAME)]),
     email_index |-> Put(EmptyDict, ADMIN_EMAIL, ADMIN_ID),
     username_index |-> Put(EmptyDict, ADMIN_USERNAME, ADMIN_ID),
     refresh_tokens |-> EmptyDict,
     blacklisted_tokens |-> {},
     password_reset_tokens |-> EmptyDict]

\* create_user that looks at the username before the email
create_user_handle_first(S, user_id, email, username, password) ==
    IF Lower(username) \in DOMAIN S.username_index
    THEN [store |-> S, ret |-> None, error |-> "Username already taken"]
    ELSE IF email \in DOMAIN S.email_index
    THEN [store |-> S, ret |-> None, error |-> "Email already registered"]
    ELSE [store |-> [S EXCEPT
                       !.users = Put(@, user_id,
                                     UserInDB(email, Lower(username),
                                              get_password_hash(password), "user")),
                       !.email_index = Put(@, email, user_id),
                       !.username_index = Put(@, Lower(username), user_id)],
          ret |-> Some(user_id), error |-> ""]

\* create_user: the store after it and what it returns or raises; user_id is
\* the fresh id secrets.token_hex draws
create_user(S, user_id, email, username, password) ==
    IF email \in DOMAIN S.email_index
    THEN [store |-> S, ret |-> None, error |-> "Email already registered"]
    ELSE IF Lower(username) \in DOMAIN S.username_index
    THEN [store |-> S, ret |-> None, error |-> "Username already taken"]
    ELSE [store |-> [S EXCEPT
                       !.users = Put(@, user_id,
                                     UserInDB(email, Lower(username),
                                              get_password_hash(password), "user")),
                       !.email_index = Put(@, email, user_id),
                       !.username_index = Put(@, Lower(username), user_id)],
          ret |-> Some(user_id), error |-> ""]

get_user_by_id(S, user_id) ==
    IF user_id \in DOMAIN S.users THEN Some(user_id) ELSE None

get_user_by_email(S, email) ==
    IF email \in DOMAIN S.email_index
    THEN get_user_by_id(S, S.email_index[email])
    ELSE None

\* get_user_by_username that looks the username up as it was typed
get_user_by_username_exact(S, username) ==
    IF username \in DOMAIN S.username_index
    THEN get_user_by_id(S, S.username_index[username])
    ELSE None

get_user_by_username(S, username) ==
    IF Lower(username) \in DOMAIN S.username_index
    THEN get_user_by_id(S, S.username_index[Lower(username)])
    ELSE None

\* update_user: setattr of every key of update_data (a record) the user has
update_user(S, user_id, update_data) ==
    IF user_id \notin DOMAIN S.users THEN S
    ELSE LET user == S.users[user_id]
             val(key) == IF key \in DOMAIN update_data
                         THEN update_data[key] ELSE user[key]
         IN [S EXCEPT !.users[user_id] =
                [email |-> val("email"), username |-> val("username"),
                 full_name |-> val("full_name"),
                 hashed_password |-> val("hashed_password"), role |-> val("role"),
                 is_active |-> val("is_active"), last_login |-> val("last_login"),
                 failed_login_attempts |-> val("failed_login_attempts"),
                 locked_until |-> val("locked_until")]]

\* cleanup_user_tokens that revokes the refresh tokens of every user
cleanup_user_tokens_every_user(S, user_id) ==
    [S EXCEPT !.refresh_tokens = EmptyDict,
              !.blacklisted_tokens = @ \cup DOMAIN S.refresh_tokens]

\* cleanup_user_tokens that blacklists the tokens and leaves the entries
cleanup_user_tokens_blacklist_only(S, user_id) ==
    LET tokens_to_remove ==
            {token \in DOMAIN S.refresh_tokens :
                 S.refresh_tokens[token].user_id = user_id}
    IN [S EXCEPT !.blacklisted_tokens = @ \cup tokens_to_remove]

cleanup_user_tokens(S, user_id) ==
    LET tokens_to_remove ==
            {token \in DOMAIN S.refresh_tokens :
                 S.refresh_tokens[token].user_id = user_id}
    IN [S EXCEPT !.refresh_tokens = Pop(@, tokens_to_remove),
                 !.blacklisted_tokens = @ \cup tokens_to_remove]

\* delete_user that leaves the email index entry behind
delete_user_keeps_index(S, user_id) ==
    IF user_id \notin DOMAIN S.users THEN [store |-> S, ret |-> FALSE]
    ELSE LET user == S.users[user_id]
             S1 == [S EXCEPT !.username_index = Pop(@, {user.username}),
                             !.users = Pop(@, {user_id})]
         IN [store |-> cleanup_user_tokens(S1, user_id), ret |-> TRUE]

\* delete_user that forgets the cascade: the tokens of the user stay
delete_user_keeps_tokens(S, user_id) ==
    IF user_id \notin DOMAIN S.users THEN [store |-> S, ret |-> FALSE]
    ELSE LET user == S.users[user_id]
         IN [store |-> [S EXCEPT !.email_index = Pop(@, {user.email}),
                                 !.username_index = Pop(@, {user.username}),
                                 !.users = Pop(@, {user_id})],
             ret |-> TRUE]

delete_user(S, user_id) ==
    IF user_id \notin DOMAIN S.users THEN [store |-> S, ret |-> FALSE]
    ELSE LET user == S.users[user_id]
             S1 == [S EXCEPT !.email_index = Pop(@, {user.email}),
                             !.username_index = Pop(@, {user.username}),
                             !.users = Pop(@, {user_id})]
         IN [store |-> cleanup_user_tokens(S1, user_id), ret |-> TRUE]

\* store_refresh_token that keeps one session for each user
store_refresh_token_one_session(S, token, user_id, expires_at) ==
    [S EXCEPT !.refresh_tokens =
        Put([x \in {y \in DOMAIN @ : @[y].user_id # user_id} |-> @[x]],
            token, [user_id |-> user_id, expires_at |-> expires_at,
                    usec |-> usec])]

\* store_refresh_token: expires_at is datetime.now() + timedelta(days=...), a
\* datetime of the second expires_at with the microsecond of now
store_refresh_token(S, token, user_id, expires_at) ==
    [S EXCEPT !.refresh_tokens =
        Put(@, token, [user_id |-> user_id, expires_at |-> expires_at,
                       usec |-> usec])]

\* datetime.now(timezone.utc) > token_data["expires_at"], at the clock second t
Past(token_data, t) ==
    \/ t > token_data.expires_at
    \/ t = token_data.expires_at /\ usec > token_data.usec

\* validate_refresh_token that leaves an expired entry in the ledger
validate_refresh_token_keeps_expired(S, token, t) ==
    IF token \in S.blacklisted_tokens THEN [store |-> S, ret |-> None]
    ELSE IF token \notin DOMAIN S.refresh_tokens THEN [store |-> S, ret |-> None]
    ELSE IF Past(S.refresh_tokens[token], t)
    THEN [store |-> S, ret |-> None]
    ELSE [store |-> S, ret |-> Some(S.refresh_tokens[token].user_id)]

\* validate_refresh_token that never looks at the blacklist
validate_refresh_token_unlisted(S, token, t) ==
    IF token \notin DOMAIN S.refresh_tokens THEN [store |-> S, ret |-> None]
    ELSE IF Past(S.refresh_tokens[token], t)
    THEN [store |-> [S EXCEPT !.refresh_tokens = Pop(@, {token})], ret |-> None]
    ELSE [store |-> S, ret |-> Some(S.refresh_tokens[token].user_id)]

validate_refresh_token(S, token, t) ==
    IF token \in S.blacklisted_tokens THEN [store |-> S, ret |-> None]
    ELSE IF token \notin DOMAIN S.refresh_tokens THEN [store |-> S, ret |-> None]
    ELSE IF Past(S.refresh_tokens[token], t)
    THEN [store |-> [S EXCEPT !.refresh_tokens = Pop(@, {token})], ret |-> None]
    ELSE [store |-> S, ret |-> Some(S.refresh_tokens[token].user_id)]

\* blacklist_token that forgets the tokens blacklisted before
blacklist_token_forgets(S, token) ==
    [S EXCEPT !.blacklisted_tokens = {token}]

blacklist_token(S, token) ==
    [S EXCEPT !.blacklisted_tokens = @ \cup {token}]

\* is_token_blacklisted that finds no token
is_token_blacklisted_never(S, token) == FALSE

is_token_blacklisted(S, token) == token \in S.blacklisted_tokens

\* increment_failed_login that counts the failure for every user
increment_failed_login_every_user(S, user_id, t) ==
    [S EXCEPT !.users =
        [u \in DOMAIN S.users |->
            LET n == S.users[u].failed_login_attempts + 1
            IN [S.users[u] EXCEPT
                   !.failed_login_attempts = n,
                   !.locked_until =
                       IF n >= MAX_LOGIN_ATTEMPTS
                       THEN Some(t + Minutes(LOGIN_TIMEOUT_MINUTES)) ELSE @]]]

\* increment_failed_login that locks one failure early
increment_failed_login_early(S, user_id, t) ==
    LET n == S.users[user_id].failed_login_attempts + 1
    IN [S EXCEPT !.users[user_id].failed_login_attempts = n,
                 !.users[user_id].locked_until =
                     IF n >= MAX_LOGIN_ATTEMPTS - 1
                     THEN Some(t + Minutes(LOGIN_TIMEOUT_MINUTES)) ELSE @]

\* increment_failed_login that locks one failure late
increment_failed_login_late(S, user_id, t) ==
    LET n == S.users[user_id].failed_login_attempts + 1
    IN [S EXCEPT !.users[user_id].failed_login_attempts = n,
                 !.users[user_id].locked_until =
                     IF n > MAX_LOGIN_ATTEMPTS
                     THEN Some(t + Minutes(LOGIN_TIMEOUT_MINUTES)) ELSE @]

increment_failed_login(S, user_id, t) ==
    LET n == S.users[user_id].failed_login_attempts + 1
    IN [S EXCEPT !.users[user_id].failed_login_attempts = n,
                 !.users[user_id].locked_until =
                     IF n >= MAX_LOGIN_ATTEMPTS
                     THEN Some(t + Minutes(LOGIN_TIMEOUT_MINUTES)) ELSE @]

reset_failed_login(S, user_id) ==
    [S EXCEPT !.users[user_id].failed_login_attempts = 0,
              !.users[user_id].locked_until = None]

\* is_user_locked that clears an expired lock and leaves the counter
is_user_locked_keeps_counter(S, user_id, t) ==
    LET locked_until == S.users[user_id].locked_until
    IN IF locked_until # None /\ t < The(locked_until)
       THEN [store |-> S, ret |-> TRUE]
       ELSE IF locked_until # None
       THEN [store |-> [S EXCEPT !.users[user_id].locked_until = None],
             ret |-> FALSE]
       ELSE [store |-> S, ret |-> FALSE]

is_user_locked(S, user_id, t) ==
    LET locked_until == S.users[user_id].locked_until
    IN IF locked_until # None /\ t < The(locked_until)
       THEN [store |-> S, ret |-> TRUE]
       ELSE IF locked_until # None
       THEN [store |-> reset_failed_login(S, user_id), ret |-> FALSE]
       ELSE [store |-> S, ret |-> FALSE]

\* create_password_reset_token; reset_token is the fresh secrets.token_urlsafe
create_password_reset_token(S, reset_token, user_id, t) ==
    [S EXCEPT !.password_reset_tokens =
        Put(@, reset_token,
            [user_id |-> user_id, expires_at |-> t + Hours(RESET_TOKEN_EXPIRE_HOURS)])]

\* validate_reset_token that never looks at the expiry
validate_reset_token_unexpiring(S, token, t) ==
    IF token \notin DOMAIN S.password_reset_tokens THEN [store |-> S, ret |-> None]
    ELSE [store |-> S, ret |-> Some(S.password_reset_tokens[token].user_id)]

validate_reset_token(S, token, t) ==
    IF token \notin DOMAIN S.password_reset_tokens THEN [store |-> S, ret |-> None]
    ELSE IF t > S.password_reset_tokens[token].expires_at
    THEN [store |-> [S EXCEPT !.password_reset_tokens = Pop(@, {token})],
          ret |-> None]
    ELSE [store |-> S, ret |-> Some(S.password_reset_tokens[token].user_id)]

\* get_stats reads is_user_locked of every user, which unlocks the expired
RECURSIVE unlock_expired(_, _, _)
unlock_expired(S, ids, t) ==
    IF ids = {} THEN S
    ELSE LET user_id == CHOOSE x \in ids : TRUE
         IN unlock_expired(is_user_locked(S, user_id, t).store, ids \ {user_id}, t)

get_stats(S, t) == unlock_expired(S, DOMAIN S.users, t)

\* ------------------------------------------------------ Dependencies
\* An HTTP response: the status code, the detail of a failure, and the Token
\* body of login and refresh
Response(status, detail) ==
    [status |-> status, detail |-> detail, access_token |-> None,
     refresh_token |-> None]
TokenResponse(access_token, refresh_token) ==
    [status |-> 200, detail |-> "", access_token |-> Some(access_token),
     refresh_token |-> Some(refresh_token)]

\* get_current_user that never looks at the kind of the token
get_current_user_any_kind(S, token, t) ==
    IF is_token_blacklisted(S, token)
    THEN [ret |-> None, resp |-> Response(401, "Token has been revoked")]
    ELSE LET payload == decode_token(token, t)
         IN IF payload = None
            THEN [ret |-> None, resp |-> Response(401, "Could not validate credentials")]
            ELSE IF get_user_by_id(S, The(payload).user_id) = None
            THEN [ret |-> None, resp |-> Response(404, "User not found")]
            ELSE IF ~S.users[The(payload).user_id].is_active
            THEN [ret |-> None, resp |-> Response(403, "Inactive user")]
            ELSE [ret |-> Some(The(payload).user_id), resp |-> Response(200, "")]

\* get_current_user that never looks at is_active
get_current_user_active_or_not(S, token, t) ==
    IF is_token_blacklisted(S, token)
    THEN [ret |-> None, resp |-> Response(401, "Token has been revoked")]
    ELSE LET payload == decode_token(token, t)
         IN IF payload = None
            THEN [ret |-> None, resp |-> Response(401, "Could not validate credentials")]
            ELSE IF The(payload).type # "access"
            THEN [ret |-> None, resp |-> Response(401, "Invalid token")]
            ELSE IF get_user_by_id(S, The(payload).user_id) = None
            THEN [ret |-> None, resp |-> Response(404, "User not found")]
            ELSE [ret |-> Some(The(payload).user_id), resp |-> Response(200, "")]

\* get_current_user: the user of a bearer token, or the failure raised
get_current_user(S, token, t) ==
    IF is_token_blacklisted(S, token)
    THEN [ret |-> None, resp |-> Response(401, "Token has been revoked")]
    ELSE LET payload == decode_token(token, t)
         IN IF payload = None
            THEN [ret |-> None, resp |-> Response(401, "Could not validate credentials")]
            ELSE IF The(payload).type # "access"
            THEN [ret |-> None, resp |-> Response(401, "Invalid token")]
            ELSE IF get_user_by_id(S, The(payload).user_id) = None
            THEN [ret |-> None, resp |-> Response(404, "User not found")]
            ELSE IF ~S.users[The(payload).user_id].is_active
            THEN [ret |-> None, resp |-> Response(403, "Inactive user")]
            ELSE [ret |-> Some(The(payload).user_id), resp |-> Response(200, "")]

\* get_current_active_user: is_active was checked by get_current_user
get_current_active_user(S, token, t) == get_current_user(S, token, t)

get_admin_user(S, token, t) ==
    LET current_user == get_current_user(S, token, t)
    IN IF current_user.ret = None THEN current_user
       ELSE IF S.users[The(current_user.ret)].role # "admin"
       THEN [ret |-> None, resp |-> Response(403, "Not enough permissions")]
       ELSE current_user

\* ------------------------------------------------------------ Routes
\* Each handler: the store after the request and the response.

register(S, user_id, email, username, password) ==
    LET created == create_user(S, user_id, email, username, password)
    IN IF created.ret = None
       THEN [store |-> S, resp |-> Response(400, created.error)]
       ELSE [store |-> created.store, resp |-> Response(201, "")]

\* POST /auth/register: the body is validated as a UserCreate before the
\* handler runs, and a body that is not valid is answered 422
post_register(S, user_id, email, username, password, confirm_password) ==
    IF UserCreate(password, confirm_password) # ""
    THEN [store |-> S, resp |-> Response(422, UserCreate(password, confirm_password))]
    ELSE register(S, user_id, email, username, password)

\* login that tells an unknown identifier from a wrong password
login_names_unknown(S, username, password, t) ==
    LET by_email == get_user_by_email(S, username)
        found == IF by_email # None THEN by_email
                 ELSE get_user_by_username(S, username)
    IN IF found = None
       THEN [store |-> S, resp |-> Response(404, "User not found")]
       ELSE LET user_id == The(found)
                locked == is_user_locked(S, user_id, t)
                S0 == locked.store
            IN IF locked.ret
               THEN [store |-> S0, resp |-> Response(423, "Account locked")]
               ELSE IF ~verify_password(password, S0.users[user_id].hashed_password)
               THEN [store |-> increment_failed_login(S0, user_id, t),
                     resp |-> Response(401, "Incorrect email/username or password")]
               ELSE LET S1 == reset_failed_login(S0, user_id)
                        S2 == [S1 EXCEPT !.users[user_id].last_login = Some(t)]
                        data == [user_id |-> user_id,
                                 username |-> S2.users[user_id].username]
                        access_token ==
                            create_token(data, "access",
                                         Minutes(ACCESS_TOKEN_EXPIRE_MINUTES), t)
                        refresh_token ==
                            create_token(data, "refresh",
                                         Days(REFRESH_TOKEN_EXPIRE_DAYS), t)
                    IN [store |-> store_refresh_token(
                                      S2, refresh_token, user_id,
                                      t + Days(REFRESH_TOKEN_EXPIRE_DAYS)),
                        resp |-> TokenResponse(access_token, refresh_token)]

\* login that counts the attempts made during a lock
login_counts_while_locked(S, username, password, t) ==
    LET by_email == get_user_by_email(S, username)
        found == IF by_email # None THEN by_email
                 ELSE get_user_by_username(S, username)
    IN IF found = None
       THEN [store |-> S,
             resp |-> Response(401, "Incorrect email/username or password")]
       ELSE LET user_id == The(found)
                locked == is_user_locked(S, user_id, t)
                S0 == locked.store
            IN IF locked.ret
               THEN [store |-> increment_failed_login(S0, user_id, t),
                     resp |-> Response(423, "Account locked")]
               ELSE IF ~verify_password(password, S0.users[user_id].hashed_password)
               THEN [store |-> increment_failed_login(S0, user_id, t),
                     resp |-> Response(401, "Incorrect email/username or password")]
               ELSE LET S1 == reset_failed_login(S0, user_id)
                        S2 == [S1 EXCEPT !.users[user_id].last_login = Some(t)]
                        data == [user_id |-> user_id,
                                 username |-> S2.users[user_id].username]
                        access_token ==
                            create_token(data, "access",
                                         Minutes(ACCESS_TOKEN_EXPIRE_MINUTES), t)
                        refresh_token ==
                            create_token(data, "refresh",
                                         Days(REFRESH_TOKEN_EXPIRE_DAYS), t)
                    IN [store |-> store_refresh_token(
                                      S2, refresh_token, user_id,
                                      t + Days(REFRESH_TOKEN_EXPIRE_DAYS)),
                        resp |-> TokenResponse(access_token, refresh_token)]

login(S, username, password, t) ==
    LET by_email == get_user_by_email(S, username)
        found == IF by_email # None THEN by_email
                 ELSE get_user_by_username(S, username)
    IN IF found = None
       THEN [store |-> S,
             resp |-> Response(401, "Incorrect email/username or password")]
       ELSE LET user_id == The(found)
                locked == is_user_locked(S, user_id, t)
                S0 == locked.store
            IN IF locked.ret
               THEN [store |-> S0, resp |-> Response(423, "Account locked")]
               ELSE IF ~verify_password(password, S0.users[user_id].hashed_password)
               THEN [store |-> increment_failed_login(S0, user_id, t),
                     resp |-> Response(401, "Incorrect email/username or password")]
               ELSE LET S1 == reset_failed_login(S0, user_id)
                        S2 == [S1 EXCEPT !.users[user_id].last_login = Some(t)]
                        data == [user_id |-> user_id,
                                 username |-> S2.users[user_id].username]
                        access_token ==
                            create_token(data, "access",
                                         Minutes(ACCESS_TOKEN_EXPIRE_MINUTES), t)
                        refresh_token ==
                            create_token(data, "refresh",
                                         Days(REFRESH_TOKEN_EXPIRE_DAYS), t)
                    IN [store |-> store_refresh_token(
                                      S2, refresh_token, user_id,
                                      t + Days(REFRESH_TOKEN_EXPIRE_DAYS)),
                        resp |-> TokenResponse(access_token, refresh_token)]

\* refresh_token that deletes the ledger entry of the token it rotates
refresh_token_drops_rotated(S, token, t) ==
    LET payload == decode_token(token, t)
    IN IF payload = None
       THEN [store |-> S, resp |-> Response(401, "Could not validate credentials")]
       ELSE IF The(payload).type # "refresh"
       THEN [store |-> S, resp |-> Response(401, "Invalid token type")]
       ELSE LET valid == validate_refresh_token(S, token, t)
                S0 == valid.store
            IN IF valid.ret = None
               THEN [store |-> S0, resp |-> Response(401, "Invalid refresh token")]
               ELSE IF get_user_by_id(S0, The(valid.ret)) = None
                       \/ ~S0.users[The(valid.ret)].is_active
               THEN [store |-> S0,
                     resp |-> Response(401, "User not found or inactive")]
               ELSE LET user_id == The(valid.ret)
                        data == [user_id |-> user_id,
                                 username |-> S0.users[user_id].username]
                        access_token ==
                            create_token(data, "access",
                                         Minutes(ACCESS_TOKEN_EXPIRE_MINUTES), t)
                        new_refresh_token ==
                            create_token(data, "refresh",
                                         Days(REFRESH_TOKEN_EXPIRE_DAYS), t)
                        S1 == [blacklist_token(S0, token) EXCEPT
                                  !.refresh_tokens = Pop(@, {token})]
                    IN [store |-> store_refresh_token(
                                      S1, new_refresh_token, user_id,
                                      t + Days(REFRESH_TOKEN_EXPIRE_DAYS)),
                        resp |-> TokenResponse(access_token, new_refresh_token)]

\* refresh_token that does not look at is_active
refresh_token_any_user(S, token, t) ==
    LET payload == decode_token(token, t)
    IN IF payload = None
       THEN [store |-> S, resp |-> Response(401, "Could not validate credentials")]
       ELSE IF The(payload).type # "refresh"
       THEN [store |-> S, resp |-> Response(401, "Invalid token type")]
       ELSE LET valid == validate_refresh_token(S, token, t)
                S0 == valid.store
            IN IF valid.ret = None
               THEN [store |-> S0, resp |-> Response(401, "Invalid refresh token")]
               ELSE IF get_user_by_id(S0, The(valid.ret)) = None
               THEN [store |-> S0,
                     resp |-> Response(401, "User not found or inactive")]
               ELSE LET user_id == The(valid.ret)
                        data == [user_id |-> user_id,
                                 username |-> S0.users[user_id].username]
                        access_token ==
                            create_token(data, "access",
                                         Minutes(ACCESS_TOKEN_EXPIRE_MINUTES), t)
                        new_refresh_token ==
                            create_token(data, "refresh",
                                         Days(REFRESH_TOKEN_EXPIRE_DAYS), t)
                        S1 == blacklist_token(S0, token)
                    IN [store |-> store_refresh_token(
                                      S1, new_refresh_token, user_id,
                                      t + Days(REFRESH_TOKEN_EXPIRE_DAYS)),
                        resp |-> TokenResponse(access_token, new_refresh_token)]

refresh_token(S, token, t) ==
    LET payload == decode_token(token, t)
    IN IF payload = None
       THEN [store |-> S, resp |-> Response(401, "Could not validate credentials")]
       ELSE IF The(payload).type # "refresh"
       THEN [store |-> S, resp |-> Response(401, "Invalid token type")]
       ELSE LET valid == validate_refresh_token(S, token, t)
                S0 == valid.store
            IN IF valid.ret = None
               THEN [store |-> S0, resp |-> Response(401, "Invalid refresh token")]
               ELSE IF get_user_by_id(S0, The(valid.ret)) = None
                       \/ ~S0.users[The(valid.ret)].is_active
               THEN [store |-> S0,
                     resp |-> Response(401, "User not found or inactive")]
               ELSE LET user_id == The(valid.ret)
                        data == [user_id |-> user_id,
                                 username |-> S0.users[user_id].username]
                        access_token ==
                            create_token(data, "access",
                                         Minutes(ACCESS_TOKEN_EXPIRE_MINUTES), t)
                        new_refresh_token ==
                            create_token(data, "refresh",
                                         Days(REFRESH_TOKEN_EXPIRE_DAYS), t)
                        S1 == blacklist_token(S0, token)
                    IN [store |-> store_refresh_token(
                                      S1, new_refresh_token, user_id,
                                      t + Days(REFRESH_TOKEN_EXPIRE_DAYS)),
                        resp |-> TokenResponse(access_token, new_refresh_token)]

\* logout that revokes the refresh tokens but not the bearer token
logout_keeps_access(S, token, t) ==
    LET current_user == get_current_user(S, token, t)
    IN IF current_user.ret = None
       THEN [store |-> S, resp |-> current_user.resp]
       ELSE [store |-> cleanup_user_tokens(S, The(current_user.ret)),
             resp |-> Response(200, "Successfully logged out")]

logout(S, token, t) ==
    LET current_user == get_current_user(S, token, t)
    IN IF current_user.ret = None
       THEN [store |-> S, resp |-> current_user.resp]
       ELSE [store |-> cleanup_user_tokens(blacklist_token(S, token),
                                           The(current_user.ret)),
             resp |-> Response(200, "Successfully logged out")]

get_current_user_profile(S, token, t) ==
    [store |-> S, resp |-> get_current_active_user(S, token, t).resp]

\* update_profile: full_name is the optional body field
update_profile(S, token, full_name, t) ==
    LET current_user == get_current_active_user(S, token, t)
    IN IF current_user.ret = None
       THEN [store |-> S, resp |-> current_user.resp]
       ELSE [store |-> IF full_name # None
                       THEN update_user(S, The(current_user.ret),
                                        [full_name |-> full_name])
                       ELSE S,
             resp |-> Response(200, "Profile updated successfully")]

\* change_password that counts a wrong current password as a failed login
change_password_counts_failure(S, token, current_password, new_password, t) ==
    LET current_user == get_current_active_user(S, token, t)
    IN IF current_user.ret = None
       THEN [store |-> S, resp |-> current_user.resp]
       ELSE LET user_id == The(current_user.ret)
            IN IF ~verify_password(current_password,
                                   S.users[user_id].hashed_password)
               THEN [store |-> increment_failed_login(S, user_id, t),
                     resp |-> Response(400, "Incorrect current password")]
               ELSE [store |-> cleanup_user_tokens(
                                   update_user(S, user_id,
                                       [hashed_password |->
                                            get_password_hash(new_password)]),
                                   user_id),
                     resp |-> Response(200, "Password updated successfully")]

change_password(S, token, current_password, new_password, t) ==
    LET current_user == get_current_active_user(S, token, t)
    IN IF current_user.ret = None
       THEN [store |-> S, resp |-> current_user.resp]
       ELSE LET user_id == The(current_user.ret)
            IN IF ~verify_password(current_password,
                                   S.users[user_id].hashed_password)
               THEN [store |-> S, resp |-> Response(400, "Incorrect current password")]
               ELSE [store |-> cleanup_user_tokens(
                                   update_user(S, user_id,
                                       [hashed_password |->
                                            get_password_hash(new_password)]),
                                   user_id),
                     resp |-> Response(200, "Password updated successfully")]

\* request_password_reset that also clears the lockout of the user
request_password_reset_unlocks(S, reset_token, email, t) ==
    LET user == get_user_by_email(S, email)
    IN IF user # None
       THEN [store |-> create_password_reset_token(
                           reset_failed_login(S, The(user)), reset_token,
                           The(user), t),
             ret |-> Some(reset_token)]
       ELSE [store |-> S, ret |-> None]

request_password_reset(S, reset_token, email, t) ==
    LET user == get_user_by_email(S, email)
    IN IF user # None
       THEN [store |-> create_password_reset_token(S, reset_token, The(user), t),
             ret |-> Some(reset_token)]
       ELSE [store |-> S, ret |-> None]

\* reset_password that leaves the reset token in place
reset_password_keeps_token(S, reset_token, new_password, t) ==
    LET valid == validate_reset_token(S, reset_token, t)
        S0 == valid.store
    IN IF valid.ret = None
       THEN [store |-> S0, resp |-> Response(400, "Invalid or expired reset token")]
       ELSE LET user_id == The(valid.ret)
                S1 == update_user(S0, user_id,
                          [hashed_password |-> get_password_hash(new_password),
                           failed_login_attempts |-> 0,
                           locked_until |-> None])
                S2 == cleanup_user_tokens(S1, user_id)
            IN [store |-> S2, resp |-> Response(200, "Password reset successfully")]

\* reset_password that leaves the sessions of the user alone
reset_password_keeps_sessions(S, reset_token, new_password, t) ==
    LET valid == validate_reset_token(S, reset_token, t)
        S0 == valid.store
    IN IF valid.ret = None
       THEN [store |-> S0, resp |-> Response(400, "Invalid or expired reset token")]
       ELSE LET user_id == The(valid.ret)
                S1 == update_user(S0, user_id,
                          [hashed_password |-> get_password_hash(new_password),
                           failed_login_attempts |-> 0,
                           locked_until |-> None])
                S3 == [S1 EXCEPT !.password_reset_tokens = Pop(@, {reset_token})]
            IN IF get_user_by_id(S3, user_id) = None
               THEN [store |-> S3, resp |-> Response(500, "Internal Server Error")]
               ELSE [store |-> S3, resp |-> Response(200, "Password reset successfully")]

\* reset_password that drops every reset record of the user on a redeem
reset_password_clears_resets(S, reset_token, new_password, t) ==
    LET valid == validate_reset_token(S, reset_token, t)
        S0 == valid.store
    IN IF valid.ret = None
       THEN [store |-> S0, resp |-> Response(400, "Invalid or expired reset token")]
       ELSE LET user_id == The(valid.ret)
                S1 == update_user(S0, user_id,
                          [hashed_password |-> get_password_hash(new_password),
                           failed_login_attempts |-> 0,
                           locked_until |-> None])
                S2 == cleanup_user_tokens(S1, user_id)
                S3 == [S2 EXCEPT !.password_reset_tokens =
                          Pop(@, {r \in DOMAIN @ : @[r].user_id = user_id})]
            IN IF get_user_by_id(S3, user_id) = None
               THEN [store |-> S3, resp |-> Response(500, "Internal Server Error")]
               ELSE [store |-> S3, resp |-> Response(200, "Password reset successfully")]

\* reset_password; for a record whose user is gone the final user.email raises
\* AttributeError after the record was deleted: a 500
reset_password(S, reset_token, new_password, t) ==
    LET valid == validate_reset_token(S, reset_token, t)
        S0 == valid.store
    IN IF valid.ret = None
       THEN [store |-> S0, resp |-> Response(400, "Invalid or expired reset token")]
       ELSE LET user_id == The(valid.ret)
                S1 == update_user(S0, user_id,
                          [hashed_password |-> get_password_hash(new_password),
                           failed_login_attempts |-> 0,
                           locked_until |-> None])
                S2 == cleanup_user_tokens(S1, user_id)
                S3 == [S2 EXCEPT !.password_reset_tokens = Pop(@, {reset_token})]
            IN IF get_user_by_id(S3, user_id) = None
               THEN [store |-> S3, resp |-> Response(500, "Internal Server Error")]
               ELSE [store |-> S3, resp |-> Response(200, "Password reset successfully")]

delete_account(S, token, t) ==
    LET current_user == get_current_active_user(S, token, t)
    IN IF current_user.ret = None
       THEN [store |-> S, resp |-> current_user.resp]
       ELSE LET deleted == delete_user(blacklist_token(S, token),
                                       The(current_user.ret))
            IN IF deleted.ret
               THEN [store |-> deleted.store,
                     resp |-> Response(200, "Account deleted successfully")]
               ELSE [store |-> deleted.store,
                     resp |-> Response(500, "Failed to delete account")]

activate_user(S, token, user_id, t) ==
    LET current_user == get_admin_user(S, token, t)
    IN IF current_user.ret = None
       THEN [store |-> S, resp |-> current_user.resp]
       ELSE IF get_user_by_id(S, user_id) = None
       THEN [store |-> S, resp |-> Response(404, "User not found")]
       ELSE [store |-> update_user(S, user_id, [is_active |-> TRUE]),
             resp |-> Response(200, "User activated successfully")]

\* deactivate_user without the check of the caller's own id
deactivate_user_self_too(S, token, user_id, t) ==
    LET current_user == get_admin_user(S, token, t)
    IN IF current_user.ret = None
       THEN [store |-> S, resp |-> current_user.resp]
       ELSE IF get_user_by_id(S, user_id) = None
       THEN [store |-> S, resp |-> Response(404, "User not found")]
       ELSE [store |-> cleanup_user_tokens(
                           update_user(S, user_id, [is_active |-> FALSE]),
                           user_id),
             resp |-> Response(200, "User deactivated successfully")]

deactivate_user(S, token, user_id, t) ==
    LET current_user == get_admin_user(S, token, t)
    IN IF current_user.ret = None
       THEN [store |-> S, resp |-> current_user.resp]
       ELSE IF get_user_by_id(S, user_id) = None
       THEN [store |-> S, resp |-> Response(404, "User not found")]
       ELSE IF user_id = The(current_user.ret)
       THEN [store |-> S,
             resp |-> Response(400, "Cannot deactivate your own account")]
       ELSE [store |-> cleanup_user_tokens(
                           update_user(S, user_id, [is_active |-> FALSE]),
                           user_id),
             resp |-> Response(200, "User deactivated successfully")]

health_check(S, t) ==
    [store |-> get_stats(S, t), resp |-> Response(200, "healthy")]

\* ------------------------------------------------------------- state
VARIABLES
    user_store,     \* the InMemoryUserStore of the process
    now,            \* datetime.now(timezone.utc), in clock ticks
    issued,         \* the tokens login and refresh have returned to clients
    ids_drawn,      \* how many user ids secrets.token_hex has drawn
    reset_sent,     \* the reset tokens returned: token -> user and issue time
    hist,           \* what an observer has seen happen to the tokens it watches
    calls,          \* concurrent callers of one route: idle, pending or done
    threads         \* threads inside create_user: the statement each is at

vars == <<user_store, now, usec, issued, ids_drawn, reset_sent, hist, calls,
          threads>>

IdleCall == [st |-> "idle", token |-> None, password |-> "",
             resp |-> Response(0, "")]

\* a thread that has not called create_user: pc is the statement it is at,
\* email and username its user_data, user_id the local of the same name, and
\* error the ValueError it raised
IdleThread == [pc |-> "idle", email |-> "", username |-> "",
               user_id |-> None, error |-> ""]
NoFails == [n |-> 0, at |-> 0, seen |-> ""]

\* hist.logged_out: the tokens a successful logout revoked, the bearer token
\*   and the refresh tokens the ledger held for its user;
\* hist.redeemed: the reset tokens redeemed;
\* hist.fails: per user, the consecutive wrong-password logins since the last
\*   successful login or password reset (counted up to one past the
\*   threshold), the time of the one that reached the threshold, and what was
\*   seen since: a login refused as "locked", or the login that "recovered"
\*   from the threshold
Init ==
    /\ user_store = NewStore
    /\ now = 0
    /\ usec = 0
    /\ issued = {}
    /\ ids_drawn = 0
    /\ reset_sent = EmptyDict
    /\ hist = [logged_out |-> {}, redeemed |-> {},
               fails |-> [u \in UserIds |-> NoFails]]
    /\ calls = [c \in Callers |-> IdleCall]
    /\ threads = [c \in Callers |-> IdleThread]

\* the tokens of a response body
Tokens(resp) == resp.access_token \cup resp.refresh_token

\* the refresh tokens the ledger holds for a user
LedgerOf(S, user_id) ==
    {token \in DOMAIN S.refresh_tokens : S.refresh_tokens[token].user_id = user_id}

\* the tokens clients hold that were issued to a user
IssuedTo(user_id) == {token \in issued : token.user_id = user_id}

\* the user a login identifier resolves to
Resolve(S, username) ==
    IF get_user_by_email(S, username) # None THEN get_user_by_email(S, username)
    ELSE get_user_by_username(S, username)

\* ----------------------------------------------------------- actions
\* One action is one request handled: the whole handler.

Tick ==
    /\ now < MaxTime
    /\ now' = now + 1
    /\ usec' = 0
    /\ UNCHANGED <<user_store, issued, ids_drawn, reset_sent, hist, calls, threads>>

Register ==
    \E email \in Emails, username \in Usernames, password \in Passwords :
        LET out == register(user_store, ids_drawn + 1, email, username, password)
        IN /\ ids_drawn < MaxUsers
           /\ user_store' = out.store
           /\ ids_drawn' = IF out.resp.status = 201 THEN ids_drawn + 1 ELSE ids_drawn
           /\ UNCHANGED <<now, usec, issued, reset_sent, hist, calls, threads>>

LoginAs(username, password) ==
    LET out == login(user_store, username, password, now)
        user == Resolve(user_store, username)
    IN /\ Cardinality(issued \cup Tokens(out.resp)) <= MaxIssued
       /\ user_store' = out.store
       /\ issued' = issued \cup Tokens(out.resp)
       /\ hist' = IF user = None THEN hist
                  ELSE IF out.resp.status = 423
                  THEN [hist EXCEPT !.fails[The(user)].seen = "locked"]
                  ELSE IF out.resp.status = 200
                  THEN [hist EXCEPT !.fails[The(user)] =
                            [n |-> 0, at |-> 0,
                             seen |-> IF @.n = MAX_LOGIN_ATTEMPTS
                                      THEN "recovered" ELSE ""]]
                  ELSE [hist EXCEPT !.fails[The(user)] =
                            [n |-> IF @.n > MAX_LOGIN_ATTEMPTS THEN @.n ELSE @.n + 1,
                             at |-> IF @.n + 1 = MAX_LOGIN_ATTEMPTS THEN now ELSE 0,
                             seen |-> ""]]
       /\ UNCHANGED <<now, usec, ids_drawn, reset_sent, calls, threads>>

\* a login with any identifier and any password
Login ==
    \E username \in Emails \cup Usernames, password \in Passwords :
        LoginAs(username, password)

\* a login of a client that knows its password
SignIn ==
    \E username \in Emails \cup Usernames, password \in Passwords :
        /\ Resolve(user_store, username) # None
        /\ verify_password(password,
               user_store.users[The(Resolve(user_store, username))].hashed_password)
        /\ LoginAs(username, password)

Refresh ==
    \E token \in issued :
        LET out == refresh_token(user_store, token, now)
        IN /\ Cardinality(issued \cup Tokens(out.resp)) <= MaxIssued
           /\ user_store' = out.store
           /\ issued' = issued \cup Tokens(out.resp)
           /\ UNCHANGED <<now, usec, ids_drawn, reset_sent, hist, calls, threads>>

Logout ==
    \E token \in issued :
        LET out == logout(user_store, token, now)
        IN /\ user_store' = out.store
           /\ hist' =
                 IF out.resp.status = 200
                 THEN [hist EXCEPT !.logged_out =
                           @ \cup {token} \cup LedgerOf(user_store, token.user_id)]
                 ELSE hist
           /\ UNCHANGED <<now, usec, issued, ids_drawn, reset_sent, calls, threads>>

Profile ==
    \E token \in issued :
        /\ user_store' = get_current_user_profile(user_store, token, now).store
        /\ UNCHANGED <<now, usec, issued, ids_drawn, reset_sent, hist, calls, threads>>

UpdateProfile ==
    \E token \in issued, full_name \in FullNames :
        /\ user_store' = update_profile(user_store, token, full_name, now).store
        /\ UNCHANGED <<now, usec, issued, ids_drawn, reset_sent, hist, calls, threads>>

ChangePassword ==
    \E token \in issued, current_password \in Passwords, new_password \in Passwords :
        LET out == change_password(user_store, token, current_password,
                                   new_password, now)
        IN /\ user_store' = out.store
           /\ UNCHANGED <<now, usec, issued, ids_drawn, reset_sent, hist, calls, threads>>

\* a reset request, while fewer than n reset tokens were sent
RequestPasswordResetUpTo(n) ==
    \E email \in Emails :
        LET reset_token == Cardinality(DOMAIN reset_sent) + 1
            out == request_password_reset(user_store, reset_token, email, now)
        IN /\ reset_token <= n
           /\ user_store' = out.store
           /\ reset_sent' =
                 IF out.ret = None THEN reset_sent
                 ELSE Put(reset_sent, reset_token,
                          [user_id |-> The(get_user_by_email(user_store, email)),
                           at |-> now])
           /\ UNCHANGED <<now, usec, issued, ids_drawn, hist, calls, threads>>

RequestPasswordReset == RequestPasswordResetUpTo(MaxResets)

\* a redeem presenting one of the reset tokens ids
ResetPasswordOf(ids) ==
    \E reset_token \in ids, new_password \in Passwords :
        LET out == reset_password(user_store, reset_token, new_password, now)
        IN /\ user_store' = out.store
           /\ hist' =
                 IF out.resp.status = 200
                 THEN [hist EXCEPT !.redeemed = @ \cup {reset_token},
                                   !.fails[reset_sent[reset_token].user_id] = NoFails]
                 ELSE hist
           /\ UNCHANGED <<now, usec, issued, ids_drawn, reset_sent, calls, threads>>

ResetPassword == ResetPasswordOf(ResetIds)

DeleteAccount ==
    \E token \in issued :
        /\ user_store' = delete_account(user_store, token, now).store
        /\ UNCHANGED <<now, usec, issued, ids_drawn, reset_sent, hist, calls, threads>>

Activate ==
    \E token \in issued, user_id \in UserIds :
        /\ user_store' = activate_user(user_store, token, user_id, now).store
        /\ UNCHANGED <<now, usec, issued, ids_drawn, reset_sent, hist, calls, threads>>

Deactivate ==
    \E token \in issued, user_id \in UserIds :
        /\ user_store' = deactivate_user(user_store, token, user_id, now).store
        /\ UNCHANGED <<now, usec, issued, ids_drawn, reset_sent, hist, calls, threads>>

Health ==
    /\ user_store' = health_check(user_store, now).store
    /\ UNCHANGED <<now, usec, issued, ids_drawn, reset_sent, hist, calls, threads>>

\* The session life cycle, with clients that know their passwords.
Next ==
    \/ Tick
    \/ Register
    \/ SignIn
    \/ Refresh
    \/ Logout
    \/ Profile
    \/ ChangePassword
    \/ DeleteAccount
    \/ Activate
    \/ Deactivate

Spec == Init /\ [][Next]_vars

\* the hour a reset token lives passes at once
Wait ==
    /\ now < MaxTime
    /\ now' = now + Hours(RESET_TOKEN_EXPIRE_HOURS)
    /\ usec' = 0
    /\ UNCHANGED <<user_store, issued, ids_drawn, reset_sent, hist, calls, threads>>

\* Lockout and recovery from it, with logins of any password.
RecoverNext ==
    \/ Tick
    \/ Login
    \/ RequestPasswordReset
    \/ ResetPassword
    \/ Health

RecoverSpec == Init /\ [][RecoverNext]_vars

\* The life of a reset token, to its expiry and past the life of its user.
RedeemNext ==
    \/ Tick
    \/ Wait
    \/ SignIn
    \/ RequestPasswordReset
    \/ ResetPassword
    \/ DeleteAccount

RedeemSpec == Init /\ [][RedeemNext]_vars

\* The user directory under every operation that reads or writes a user
\* record, all at one clock value.
DirectoryNext ==
    \/ Register
    \/ SignIn
    \/ UpdateProfile
    \/ ChangePassword
    \/ RequestPasswordReset
    \/ ResetPassword
    \/ DeleteAccount
    \/ Activate
    \/ Deactivate

DirectorySpec == Init /\ [][DirectoryNext]_vars

\* Concurrent refresh: every caller sends the same refresh token, valid when
\* sent, and the event loop handles the requests one at a time in any order.
Race ==
    \E token \in issued :
        /\ \A c \in Callers : calls[c].st = "idle"
        /\ refresh_token(user_store, token, now).resp.status = 200
        /\ Cardinality(issued) + 2 <= MaxIssued
        /\ calls' = [c \in Callers |->
                        [IdleCall EXCEPT !.st = "pending", !.token = Some(token)]]
        /\ UNCHANGED <<user_store, now, usec, issued, ids_drawn, reset_sent, hist, threads>>

Handle ==
    \E c \in Callers :
        LET out == refresh_token(user_store, The(calls[c].token), now)
        IN /\ calls[c].st = "pending"
           /\ user_store' = out.store
           /\ issued' = issued \cup Tokens(out.resp)
           /\ calls' = [calls EXCEPT ![c].st = "done", ![c].resp = out.resp]
           /\ UNCHANGED <<now, usec, ids_drawn, reset_sent, hist, threads>>

RaceNext ==
    \/ Tick
    \/ SignIn
    \/ Race
    \/ Handle

RaceSpec == Init /\ [][RaceNext]_vars

\* the days a refresh token lives pass at once
WaitDays ==
    /\ now < MaxTime
    /\ now' = now + Days(REFRESH_TOKEN_EXPIRE_DAYS)
    /\ usec' = 0
    /\ UNCHANGED <<user_store, issued, ids_drawn, reset_sent, hist, calls, threads>>

\* the clock moves on within its second
Elapse ==
    /\ usec = 0
    /\ usec' = 1
    /\ UNCHANGED <<user_store, now, issued, ids_drawn, reset_sent, hist, calls, threads>>

\* The ledger and the blacklist under the session routes, to past the expiry
\* of refresh tokens.
LedgerNext ==
    \/ Tick
    \/ WaitDays
    \/ Elapse
    \/ SignIn
    \/ Refresh
    \/ Logout

LedgerSpec == Init /\ [][LedgerNext]_vars

\* The ledger under every route that writes it, in the second of a login, in
\* the second in which its refresh token expires, and past it.
EvictionNext ==
    \/ WaitDays
    \/ Elapse
    \/ Register
    \/ SignIn
    \/ Refresh
    \/ Logout
    \/ ChangePassword
    \/ DeleteAccount
    \/ Deactivate

EvictionSpec == Init /\ [][EvictionNext]_vars

\* Lockout: users register and log in, with right and wrong passwords.
LockoutNext ==
    \/ Tick
    \/ Register
    \/ Login

LockoutSpec == Init /\ [][LockoutNext]_vars

\* Passwords in use: logins with right and wrong passwords, and changes of
\* password with right and wrong current passwords.
CredentialNext ==
    \/ Tick
    \/ Login
    \/ ChangePassword
    \/ Logout

CredentialSpec == Init /\ [][CredentialNext]_vars

\* Concurrent redeem: every caller posts /auth/reset-password with the same
\* reset token and a password of its own, while logins, refreshes and reset
\* requests keep arriving.  No handler awaits, so the event loop runs each
\* handler to its end before the next, in any order; the requests arrive
\* within one second.
SendRedeem ==
    \E reset_token \in DOMAIN user_store.password_reset_tokens,
       passwords \in [Callers -> Passwords] :
        /\ \A c \in Callers : calls[c].st = "idle"
        /\ calls' = [c \in Callers |->
                        [IdleCall EXCEPT !.st = "pending",
                                         !.token = Some(reset_token),
                                         !.password = passwords[c]]]
        /\ UNCHANGED <<user_store, now, usec, issued, ids_drawn, reset_sent, hist, threads>>

ServeRedeem ==
    \E c \in Callers :
        LET reset_token == The(calls[c].token)
            out == reset_password(user_store, reset_token, calls[c].password, now)
        IN /\ calls[c].st = "pending"
           /\ user_store' = out.store
           /\ hist' =
                 IF out.resp.status = 200
                 THEN [hist EXCEPT !.redeemed = @ \cup {reset_token},
                                   !.fails[reset_sent[reset_token].user_id] = NoFails]
                 ELSE hist
           /\ calls' = [calls EXCEPT ![c].st = "done", ![c].resp = out.resp]
           /\ UNCHANGED <<now, usec, issued, ids_drawn, reset_sent, threads>>

\* Several reset tokens of one user outstanding at once: requests up to
\* MaxOutstanding, redeems of any of them, the hour of their life passing, and
\* users registered, signed in and deactivated in between.
OutstandingNext ==
    \/ Wait
    \/ Register
    \/ SignIn
    \/ RequestPasswordResetUpTo(MaxOutstanding)
    \/ ResetPasswordOf(1 .. MaxOutstanding)
    \/ Deactivate

OutstandingSpec == Init /\ [][OutstandingNext]_vars

RedeemRaceNext ==
    \/ Login
    \/ Refresh
    \/ RequestPasswordReset
    \/ SendRedeem
    \/ ServeRedeem

RedeemRaceSpec == Init /\ [][RedeemRaceNext]_vars

\* create_user run by several threads of one process.  The store takes no
\* lock, so another thread can run between any two statements of the method:
\* one action is one statement of one thread.
CreatePassword == "Passw0rd1"
CreateEmails == Emails \cup {"b@x.com"}

Call ==
    \E c \in Callers, email \in CreateEmails, username \in Usernames :
        /\ threads[c].pc = "idle"
        /\ threads' = [threads EXCEPT ![c] =
                          [IdleThread EXCEPT !.pc = "check_email",
                                             !.email = email,
                                             !.username = username]]
        /\ UNCHANGED <<user_store, now, usec, issued, ids_drawn, reset_sent, hist, calls>>

\* if user_data.email in self.email_index: raise ValueError
CheckEmail ==
    \E c \in Callers :
        /\ threads[c].pc = "check_email"
        /\ threads' = IF threads[c].email \in DOMAIN user_store.email_index
                      THEN [threads EXCEPT ![c].pc = "done",
                                           ![c].error = "Email already registered"]
                      ELSE [threads EXCEPT ![c].pc = "check_username"]
        /\ UNCHANGED <<user_store, now, usec, issued, ids_drawn, reset_sent, hist, calls>>

\* if user_data.username.lower() in self.username_index: raise ValueError
CheckUsername ==
    \E c \in Callers :
        /\ threads[c].pc = "check_username"
        /\ threads' = IF Lower(threads[c].username)
                             \in DOMAIN user_store.username_index
                      THEN [threads EXCEPT ![c].pc = "done",
                                           ![c].error = "Username already taken"]
                      ELSE [threads EXCEPT ![c].pc = "build"]
        /\ UNCHANGED <<user_store, now, usec, issued, ids_drawn, reset_sent, hist, calls>>

\* user_id = f"user-{secrets.token_hex(8)}" and user = UserInDB(...), with
\* the password hashed
Build ==
    \E c \in Callers :
        /\ threads[c].pc = "build"
        /\ ids_drawn' = ids_drawn + 1
        /\ threads' = [threads EXCEPT ![c].pc = "put_user",
                                      ![c].user_id = Some(ids_drawn + 1)]
        /\ UNCHANGED <<user_store, now, usec, issued, reset_sent, hist, calls>>

\* self.users[user_id] = user
PutUser ==
    \E c \in Callers :
        /\ threads[c].pc = "put_user"
        /\ user_store' = [user_store EXCEPT
                             !.users = Put(@, The(threads[c].user_id),
                                           UserInDB(threads[c].email,
                                                    Lower(threads[c].username),
                                                    get_password_hash(CreatePassword),
                                                    "user"))]
        /\ threads' = [threads EXCEPT ![c].pc = "put_email"]
        /\ UNCHANGED <<now, usec, issued, ids_drawn, reset_sent, hist, calls>>

\* self.email_index[user.email] = user_id
PutEmail ==
    \E c \in Callers :
        /\ threads[c].pc = "put_email"
        /\ user_store' = [user_store EXCEPT
                             !.email_index = Put(@, threads[c].email,
                                                 The(threads[c].user_id))]
        /\ threads' = [threads EXCEPT ![c].pc = "put_username"]
        /\ UNCHANGED <<now, usec, issued, ids_drawn, reset_sent, hist, calls>>

\* self.username_index[user.username] = user_id; return user
PutUsername ==
    \E c \in Callers :
        /\ threads[c].pc = "put_username"
        /\ user_store' = [user_store EXCEPT
                             !.username_index = Put(@, Lower(threads[c].username),
                                                    The(threads[c].user_id))]
        /\ threads' = [threads EXCEPT ![c].pc = "done"]
        /\ UNCHANGED <<now, usec, issued, ids_drawn, reset_sent, hist, calls>>

CreateNext ==
    \/ Call
    \/ CheckEmail
    \/ CheckUsername
    \/ Build
    \/ PutUser
    \/ PutEmail
    \/ PutUsername

CreateSpec == Init /\ [][CreateNext]_vars

\* Registration requests with passwords spelled out: every client posts one
\* /auth/register body and keeps the answer.
Repeat(ch, n) == [i \in 1 .. n |-> ch]
Passw0rd == <<"P", "a", "s", "s", "w", "0", "r", "d">>
Candidates ==
    {<<>>,
     <<"P", "a", "s", "s", "0", "r", "d">>,
     Passw0rd,
     Passw0rd \o <<"1">>,
     <<"P", "a", "s", "s", "w", "o", "r", "d", "!">>,
     <<"p", "a", "s", "s", "w", "0", "r", "d", "1">>,
     <<"P", "A", "S", "S", "W", "0", "R", "D", "1">>,
     Passw0rd \o Repeat("a", PASSWORD_MAX_LENGTH - Len(Passw0rd)),
     Passw0rd \o Repeat("a", PASSWORD_MAX_LENGTH - Len(Passw0rd) + 1)}

PostRegister ==
    \E c \in Callers, email \in CreateEmails, username \in Usernames,
       password \in Candidates, confirm_password \in Candidates :
        LET out == post_register(user_store, ids_drawn + 1, email, username,
                                 password, confirm_password)
        IN /\ calls[c].st = "idle"
           /\ user_store' = out.store
           /\ ids_drawn' = IF out.resp.status = 201 THEN ids_drawn + 1 ELSE ids_drawn
           /\ calls' = [calls EXCEPT ![c] =
                           [IdleCall EXCEPT !.st = "done",
                                            !.password = password,
                                            !.resp = out.resp]]
           /\ UNCHANGED <<now, usec, issued, reset_sent, hist, threads>>

PolicyNext == PostRegister

PolicySpec == Init /\ [][PolicyNext]_vars

\* ------------------------------------------------------------ claims
\* the clock values from now on, to past the expiry of every reset token
Horizon == MaxTime + Hours(RESET_TOKEN_EXPIRE_HOURS)
Later == now .. Horizon

\* C1: refresh-token rotation prevents replay.  For every refresh token R a
\* client holds that refresh accepts, the refresh returns a new access and
\* refresh token pair (tokens no client was given before, the refresh token
\* not R itself), and from then on every refresh presenting R fails with 401,
\* long before R expires; a blacklisted token is never accepted by refresh.
C1_RotationPreventsReplay ==
    /\ \A R \in issued :
          LET out == refresh_token(user_store, R, now)
          IN out.resp.status = 200 =>
                /\ Tokens(out.resp) \cap issued = {}
                /\ out.resp.refresh_token # Some(R)
                /\ \A t \in Later :
                       refresh_token(out.store, R, t).resp.status = 401
    /\ \A R \in user_store.blacklisted_tokens, t \in Later :
          refresh_token(user_store, R, t).resp.status = 401

\* the callers of the race whose refresh succeeded
Succeeded == {c \in Callers : calls[c].st = "done" /\ calls[c].resp.status = 200}

\* the refresh tokens the ledger holds that a call of the race returned and
\* that are not the token the callers presented
NewFromCalls ==
    {token \in DOMAIN user_store.refresh_tokens :
        \E c \in Callers : /\ calls[c].resp.refresh_token = Some(token)
                           /\ calls[c].token # Some(token)}

\* C2: when all callers refresh concurrently with the same valid refresh
\* token, at most one call has succeeded at any moment, and once every call
\* has returned exactly one succeeded, all others failed with 401 "Invalid
\* refresh token", and the ledger holds exactly one new refresh token from
\* those calls.
C2_OneRefreshWins ==
    /\ Cardinality(Succeeded) <= 1
    /\ (\A c \in Callers : calls[c].st = "done") =>
          /\ Cardinality(Succeeded) = 1
          /\ \A c \in Callers \ Succeeded :
                 calls[c].resp = Response(401, "Invalid refresh token")
          /\ Cardinality(NewFromCalls) = 1

\* C3: for every user, once the consecutive failed logins have reached the
\* threshold (5), every login attempt made before the cooldown (15 minutes)
\* has elapsed fails with 423 Locked, whatever the password; once the
\* cooldown has elapsed a login with the correct password succeeds and leaves
\* the failed-attempt counter at zero and lock-until cleared.
C3_LockoutAndRecovery ==
    \A u \in DOMAIN user_store.users :
        LET user == user_store.users[u]
            f == hist.fails[u]
        IN f.n = MAX_LOGIN_ATTEMPTS =>
              \A username \in {user.email, user.username}, password \in Passwords :
                  LET out == login(user_store, username, password, now)
                  IN IF now < f.at + Minutes(LOGIN_TIMEOUT_MINUTES)
                     THEN out.resp.status = 423
                     ELSE verify_password(password, user.hashed_password) =>
                             /\ out.resp.status = 200
                             /\ out.store.users[u].failed_login_attempts = 0
                             /\ out.store.users[u].locked_until = None

\* a user was refused as locked at the threshold, waited, and logged in
C3_Witness ==
    \E u \in DOMAIN user_store.users :
        /\ hist.fails[u].seen = "recovered"
        /\ user_store.users[u].last_login = Some(now)
        /\ user_store.users[u].failed_login_attempts = 0

\* has the hour of a reset token that was sent passed
Expired(reset_token) ==
    now > reset_sent[reset_token].at + Hours(RESET_TOKEN_EXPIRE_HOURS)

\* C4: a password-reset token is single-use and time-boxed.  A redeem
\* succeeds only for a token that was sent, has not been redeemed and has not
\* expired; redeeming a redeemed, expired or unknown token fails with 400
\* "Invalid or expired reset token"; and the record of a token is gone after
\* it was redeemed and after it was looked up expired.
C4_ResetTokenSingleUse ==
    \A reset_token \in ResetIds, new_password \in Passwords :
        LET out == reset_password(user_store, reset_token, new_password, now)
            sent == reset_token \in DOMAIN reset_sent
            redeemed == reset_token \in hist.redeemed
        IN /\ out.resp.status = 200 =>
                 sent /\ ~redeemed /\ ~Expired(reset_token)
           /\ (~sent \/ redeemed \/ Expired(reset_token)) =>
                 out.resp = Response(400, "Invalid or expired reset token")
           /\ (out.resp.status = 200 \/ (sent /\ Expired(reset_token))) =>
                 reset_token \notin DOMAIN out.store.password_reset_tokens
           /\ redeemed => reset_token \notin DOMAIN user_store.password_reset_tokens

\* a token was redeemed, and its hour has passed since
C4_Witness ==
    \E reset_token \in hist.redeemed : Expired(reset_token)

\* C5: a successful redeem of a reset token of user u with a new password
\* leaves u with a hash that verifies the new password and no other, the
\* failed-attempt counter at 0 and lock-until cleared, so that u can log in
\* at once with the new password, also when u was locked; and every refresh
\* token the ledger held for u is rejected by refresh from then on.
C5_RedeemEffects ==
    \A reset_token \in ResetIds, new_password \in Passwords :
        LET out == reset_password(user_store, reset_token, new_password, now)
        IN out.resp.status = 200 =>
              LET u == user_store.password_reset_tokens[reset_token].user_id
                  user == out.store.users[u]
              IN /\ \A p \in Passwords :
                        verify_password(p, user.hashed_password) <=> p = new_password
                 /\ user.failed_login_attempts = 0
                 /\ user.locked_until = None
                 /\ \A username \in {user.email, user.username} :
                        login(out.store, username, new_password, now).resp.status = 200
                 /\ \A token \in LedgerOf(user_store, u), t \in Later :
                        refresh_token(out.store, token, t).resp.status = 401

\* a locked user with a recorded refresh token redeems a reset token for a
\* password that is not the old one
C5_Witness ==
    \E reset_token \in DOMAIN user_store.password_reset_tokens :
        LET u == user_store.password_reset_tokens[reset_token].user_id
        IN /\ u \in DOMAIN user_store.users
           /\ is_user_locked(user_store, u, now).ret
           /\ LedgerOf(user_store, u) # {}
           /\ \E new_password \in Passwords :
                 /\ ~verify_password(new_password,
                                     user_store.users[u].hashed_password)
                 /\ reset_password(user_store, reset_token, new_password,
                                   now).resp.status = 200

\* is the token refused by every protected check and by refresh, at time t
Refused(S, token, t) ==
    /\ get_current_user(S, token, t).ret = None
    /\ get_current_active_user(S, token, t).ret = None
    /\ get_admin_user(S, token, t).ret = None
    /\ refresh_token(S, token, t).resp.status = 401

\* C6: a logout of user u blacklists the access token presented and evicts
\* from the ledger every refresh token recorded for u; and every token a
\* logout has revoked is refused from then on, before its expiry too: the
\* access token by every protected check, the refresh tokens by refresh.
C6_LogoutRevokes ==
    /\ \A token \in issued :
          LET out == logout(user_store, token, now)
          IN out.resp.status = 200 =>
                /\ is_token_blacklisted(out.store, token)
                /\ LedgerOf(out.store, token.user_id) = {}
                /\ \A old \in {token} \cup LedgerOf(user_store, token.user_id),
                      t \in Later : Refused(out.store, old, t)
    /\ \A token \in hist.logged_out, t \in Later : Refused(user_store, token, t)

\* a user who logged out is still active and holds the unexpired access
\* token and a refresh token the logout revoked
C6_Witness ==
    \E access \in hist.logged_out, refresh \in hist.logged_out :
        /\ access.type = "access" /\ refresh.type = "refresh"
        /\ access.user_id = refresh.user_id
        /\ decode_token(access, now) # None
        /\ access.user_id \in DOMAIN user_store.users
        /\ user_store.users[access.user_id].is_active

\* C7: a successful change of password of user u revokes all outstanding
\* tokens of u: no token issued to u before the change is accepted
\* afterwards, neither an access token by a protected check nor a refresh
\* token by refresh.
C7_ChangePasswordRevokesAll ==
    \A token \in issued, current_password \in Passwords, new_password \in Passwords :
        LET out == change_password(user_store, token, current_password,
                                   new_password, now)
        IN out.resp.status = 200 =>
              \A old \in IssuedTo(token.user_id), t \in Later :
                  Refused(out.store, old, t)

\* C8: a deactivation revokes all tokens of the target user: no token issued
\* to the user before it is accepted by a protected check or by refresh
\* afterwards, and none is after the user was activated again.
C8_DeactivateRevokesAll ==
    \A token \in issued, user_id \in UserIds :
        LET off == deactivate_user(user_store, token, user_id, now)
            on == activate_user(off.store, token, user_id, now)
        IN off.resp.status = 200 =>
              /\ on.resp.status = 200
              /\ \A old \in IssuedTo(user_id), t \in Later :
                     /\ Refused(off.store, old, t)
                     /\ Refused(on.store, old, t)

\* C9: delete_user of a known id returns true and leaves no user record, no
\* index entry of the user and no ledger entry owned by the user, with every
\* refresh token that was recorded for the user in the blacklist; of an
\* unknown id it returns false and changes nothing.  So no refresh token of
\* a deleted user is ever in the ledger or missing from the blacklist.
C9_DeleteCascades ==
    /\ \A user_id \in UserIds \cup {MaxUsers + 1} :
          LET out == delete_user(user_store, user_id)
          IN IF user_id \in DOMAIN user_store.users
             THEN LET user == user_store.users[user_id]
                  IN /\ out.ret = TRUE
                     /\ user_id \notin DOMAIN out.store.users
                     /\ user.email \notin DOMAIN out.store.email_index
                     /\ user.username \notin DOMAIN out.store.username_index
                     /\ LedgerOf(out.store, user_id) = {}
                     /\ LedgerOf(user_store, user_id)
                            \subseteq out.store.blacklisted_tokens
             ELSE out.ret = FALSE /\ out.store = user_store
    /\ \A token \in issued :
          (token.type = "refresh" /\ token.user_id \notin DOMAIN user_store.users)
              => /\ token \in user_store.blacklisted_tokens
                 /\ token \notin DOMAIN user_store.refresh_tokens

\* a registered user with a recorded refresh token was deleted, while
\* another user still has one recorded
C9_Witness ==
    /\ \E token \in issued :
          /\ token.type = "refresh"
          /\ token.user_id # ADMIN_ID
          /\ token.user_id \notin DOMAIN user_store.users
    /\ LedgerOf(user_store, ADMIN_ID) # {}

\* C10: a deleted user has no token of any kind outstanding: no reset record
\* is owned by a user that does not exist, and redeeming a reset token that
\* was requested for a user deleted since fails with 400 "Invalid or expired
\* reset token".
C10_DeleteClearsResetTokens ==
    /\ \A reset_token \in DOMAIN user_store.password_reset_tokens :
          user_store.password_reset_tokens[reset_token].user_id
              \in DOMAIN user_store.users
    /\ \A reset_token \in DOMAIN reset_sent, new_password \in Passwords :
          reset_sent[reset_token].user_id \notin DOMAIN user_store.users =>
              reset_password(user_store, reset_token, new_password, now).resp
                  = Response(400, "Invalid or expired reset token")

\* the emails a registration may bring, one of them never used by an action
AnyEmail == Emails \cup {"b@x.com"}

\* the handles a registration may bring, one of them never used by an action
AnyHandle == Usernames \cup {"bob"}

\* C11: registration enforces uniqueness.  A create with an unused email and
\* an unused handle succeeds, recording the user under both indices, and the
\* same create does not succeed again; a create with a used email fails
\* "Email already registered" whatever the handle (the email is checked
\* first); a create with an unused email and a used handle fails "Username
\* already taken"; and a failed create leaves the store as it was.
C11_RegistrationUnique ==
    \A email \in AnyEmail, username \in AnyHandle, password \in Passwords :
        LET user_id == ids_drawn + 1
            out == create_user(user_store, user_id, email, username, password)
            resp == register(user_store, user_id, email, username, password).resp
            email_used == email \in DOMAIN user_store.email_index
            handle_used == Lower(username) \in DOMAIN user_store.username_index
        IN /\ email_used =>
                 /\ out.ret = None /\ out.error = "Email already registered"
                 /\ resp = Response(400, "Email already registered")
           /\ (~email_used /\ handle_used) =>
                 /\ out.ret = None /\ out.error = "Username already taken"
                 /\ resp = Response(400, "Username already taken")
           /\ out.ret = None => out.store = user_store
           /\ (~email_used /\ ~handle_used) =>
                 /\ out.ret = Some(user_id) /\ resp.status = 201
                 /\ out.store.users[user_id].email = email
                 /\ out.store.email_index[email] = user_id
                 /\ out.store.username_index[Lower(username)] = user_id
                 /\ \A username2 \in AnyHandle, password2 \in Passwords :
                        create_user(out.store, user_id + 1, email, username2,
                                    password2).error = "Email already registered"
                 /\ \A email2 \in AnyEmail \ DOMAIN out.store.email_index :
                        create_user(out.store, user_id + 1, email2, username,
                                    password).error = "Username already taken"

\* a user was registered, and a second registration with its email and a
\* handle nobody uses is refused
C11_Witness ==
    \E u \in DOMAIN user_store.users \ {ADMIN_ID}, username \in AnyHandle :
        /\ ADMIN_ID \in DOMAIN user_store.users
        /\ Lower(username) \notin DOMAIN user_store.username_index
        /\ register(user_store, ids_drawn + 1, user_store.users[u].email,
                    username, "Passw0rd1").resp
               = Response(400, "Email already registered")

\* C12: in every reachable state the email index and the handle index are
\* exact bijections with the live user records: every index entry points to
\* an existing user whose email (handle) is the key, and every user has its
\* entry in each index, so each index has exactly one entry for each user.
C12_IndicesConsistent ==
    LET S == user_store
    IN /\ \A email \in DOMAIN S.email_index :
             /\ S.email_index[email] \in DOMAIN S.users
             /\ S.users[S.email_index[email]].email = email
       /\ \A username \in DOMAIN S.username_index :
             /\ S.username_index[username] \in DOMAIN S.users
             /\ S.users[S.username_index[username]].username = username
       /\ \A u \in DOMAIN S.users :
             /\ S.users[u].email \in DOMAIN S.email_index
             /\ S.email_index[S.users[u].email] = u
             /\ S.users[u].username \in DOMAIN S.username_index
             /\ S.username_index[S.users[u].username] = u
       /\ Cardinality(DOMAIN S.email_index) = Cardinality(DOMAIN S.users)
       /\ Cardinality(DOMAIN S.username_index) = Cardinality(DOMAIN S.users)

\* a user was registered and deleted again, and the admin, with a changed
\* profile and a changed password, is left
C12_Witness ==
    /\ ids_drawn > 0
    /\ DOMAIN user_store.users = {ADMIN_ID}
    /\ user_store.users[ADMIN_ID].full_name # Some(ADMIN_FULL_NAME)
    /\ ~verify_password(ADMIN_PASSWORD, user_store.users[ADMIN_ID].hashed_password)

\* C13, as stated: in every reachable state no refresh token of the ledger
\* is in the blacklist, since whatever blacklists a refresh token removes its
\* ledger entry in the same step.
C13_LedgerDisjointFromBlacklist ==
    DOMAIN user_store.refresh_tokens \cap user_store.blacklisted_tokens = {}

\* C13, amended: a refresh token of the ledger that is in the blacklist is
\* never usable: validate_refresh_token returns None for it and refresh
\* answers 401 at every time.  cleanup_user_tokens removes the ledger entries
\* it blacklists; a rotation blacklists the token presented and leaves its
\* ledger entry in place.
C13_BlacklistedEntryUnusable ==
    /\ \A token \in DOMAIN user_store.refresh_tokens
                       \cap user_store.blacklisted_tokens, t \in Later :
          /\ validate_refresh_token(user_store, token, t).ret = None
          /\ refresh_token(user_store, token, t).resp
                 = Response(401, "Invalid refresh token")
    /\ \A u \in DOMAIN user_store.users :
          LET S1 == cleanup_user_tokens(user_store, u)
          IN /\ LedgerOf(S1, u) = {}
             /\ LedgerOf(user_store, u) \subseteq S1.blacklisted_tokens
    /\ \A R \in issued :
          LET out == refresh_token(user_store, R, now)
          IN out.resp.status = 200 =>
                /\ R \in out.store.blacklisted_tokens
                /\ R \in DOMAIN out.store.refresh_tokens

\* a rotated refresh token of an active user is still in the ledger, long
\* before its expiry
C13_Witness ==
    \E token \in DOMAIN user_store.refresh_tokens :
        /\ token \in user_store.blacklisted_tokens
        /\ token.user_id \in DOMAIN user_store.users
        /\ user_store.users[token.user_id].is_active
        /\ now <= user_store.refresh_tokens[token].expires_at
        /\ token.iat < now

\* the failure of a login with bad credentials
BadCredentials == Response(401, "Incorrect email/username or password")

\* C14: login does not reveal whether an account exists.  A login with an
\* identifier that resolves to no user, and a login of an existing, unlocked
\* user with a wrong password, get the same failure, status and message; and
\* the login with the unknown identifier changes no state.
C14_LoginFailureUniform ==
    \A username \in Emails \cup Usernames, password \in Passwords :
        LET out == login(user_store, username, password, now)
            user == Resolve(user_store, username)
        IN /\ user = None =>
                 out.resp = BadCredentials /\ out.store = user_store
           /\ ( /\ user # None
                /\ ~is_user_locked(user_store, The(user), now).ret
                /\ ~verify_password(password,
                        user_store.users[The(user)].hashed_password) )
                 => out.resp = BadCredentials

\* the admin, not locked, has just failed a login, and some identifier
\* resolves to no user
C14_Witness ==
    /\ ADMIN_ID \in DOMAIN user_store.users
    /\ hist.fails[ADMIN_ID].n \in 1 .. MAX_LOGIN_ATTEMPTS - 1
    /\ user_store.users[ADMIN_ID].failed_login_attempts > 0
    /\ ~is_user_locked(user_store, ADMIN_ID, now).ret
    /\ \E username \in Usernames : Resolve(user_store, username) = None

\* C15: a token of the wrong kind is rejected although its signature is
\* valid and it has not expired.  A refresh token presented as bearer token
\* is refused by every protected check (with 401 "Invalid token" unless it is
\* revoked) and the protected routes change nothing; an access token
\* presented to refresh fails with 401 "Invalid token type", changes neither
\* ledger nor blacklist nor anything else, and no token is issued.
C15_WrongKindRejected ==
    \A token \in issued, t \in Later :
        decode_token(token, t) # None =>
            /\ token.type = "refresh" =>
                  /\ get_current_user(user_store, token, t).ret = None
                  /\ get_current_active_user(user_store, token, t).ret = None
                  /\ get_admin_user(user_store, token, t).ret = None
                  /\ ~is_token_blacklisted(user_store, token) =>
                        get_current_user(user_store, token, t).resp
                            = Response(401, "Invalid token")
                  /\ logout(user_store, token, t).store = user_store
                  /\ delete_account(user_store, token, t).store = user_store
                  /\ \A password \in Passwords :
                        change_password(user_store, token, password, password,
                                        t).store = user_store
            /\ token.type = "access" =>
                  LET out == refresh_token(user_store, token, t)
                  IN /\ out.resp = Response(401, "Invalid token type")
                     /\ out.store = user_store
                     /\ Tokens(out.resp) = {}

\* an active user holds an unexpired access token and a refresh token of the
\* ledger, neither revoked
C15_Witness ==
    \E access \in issued, refresh \in DOMAIN user_store.refresh_tokens :
        /\ access.type = "access" /\ refresh.type = "refresh"
        /\ access.user_id = refresh.user_id
        /\ get_current_user(user_store, access, now).ret # None
        /\ refresh_token(user_store, refresh, now).resp.status = 200
        /\ get_current_user(user_store, refresh, now).resp
               = Response(401, "Invalid token")

\* the failure of a protected check for a blacklisted token
Revoked == Response(401, "Token has been revoked")

\* C16: a blacklisted access token is rejected by every protected check
\* whatever its signature and remaining lifetime.  The blacklist test comes
\* first: the failure is 401 "Token has been revoked" also for a token that
\* has expired or whose signature is forged; and the blacklist never loses a
\* token, so from the moment a token enters it no protected check accepts
\* the token again.
C16_BlacklistedNeverAccepted ==
    /\ [](\A token \in user_store.blacklisted_tokens, t \in Later :
             /\ get_current_user(user_store, token, t)
                    = [ret |-> None, resp |-> Revoked]
             /\ get_current_active_user(user_store, token, t).ret = None
             /\ get_admin_user(user_store, token, t).ret = None)
    /\ [](\A token \in issued, t \in Later :
             LET forged == [token EXCEPT !.sig = "forged"]
             IN get_current_user(blacklist_token(user_store, forged), forged, t)
                    = [ret |-> None, resp |-> Revoked])
    /\ [][user_store.blacklisted_tokens
              \subseteq user_store'.blacklisted_tokens]_vars

\* the unexpired access token of an active user is in the blacklist, while
\* another access token of the user is accepted
C16_Witness ==
    \E token \in user_store.blacklisted_tokens, other \in issued :
        /\ token.type = "access" /\ other.user_id = token.user_id
        /\ decode_token(token, now) # None
        /\ get_current_user(user_store, other, now).ret = Some(token.user_id)

\* the threads whose create_user returned a user
Created == {c \in Callers : threads[c].pc = "done" /\ threads[c].error = ""}

\* C17_NoSharedKey: no two user records share an email or a handle.
C17_NoSharedKey ==
    \A u \in DOMAIN user_store.users, v \in DOMAIN user_store.users :
        u # v => /\ user_store.users[u].email # user_store.users[v].email
                 /\ user_store.users[u].username # user_store.users[v].username

\* C17_NoPartialCreate: a reader never finds a user record without its two
\* index entries, nor an index entry without its record.
C17_NoPartialCreate ==
    LET S == user_store
    IN /\ \A u \in DOMAIN S.users :
             /\ S.users[u].email \in DOMAIN S.email_index
             /\ S.users[u].username \in DOMAIN S.username_index
       /\ \A email \in DOMAIN S.email_index :
             S.email_index[email] \in DOMAIN S.users
       /\ \A username \in DOMAIN S.username_index :
             S.username_index[username] \in DOMAIN S.users

\* a call whose email and handle the store did not hold when the threads
\* started: the store held the admin only
Free(c) ==
    /\ threads[c].email # ADMIN_EMAIL
    /\ Lower(threads[c].username) # ADMIN_USERNAME

SameEmail(c, d) == threads[c].email = threads[d].email
SameHandle(c, d) == Lower(threads[c].username) = Lower(threads[d].username)

\* C17_OneCreateWins: of the finished calls for a free email and handle that
\* share an email, or a handle, exactly one returned a user; a call that lost
\* to one with its email raised "Email already registered", and one that lost
\* to a call with its handle, its email being nobody's, raised "Username
\* already taken".
C17_OneCreateWins ==
    \A c \in Callers :
        (threads[c].pc = "done" /\ Free(c)) =>
            /\ \A d \in Created \ {c} :
                  /\ (SameEmail(c, d) \/ SameHandle(c, d)) => c \notin Created
                  /\ SameEmail(c, d)
                        => threads[c].error = "Email already registered"
                  /\ (/\ SameHandle(c, d)
                      /\ \A e \in Created \ {c} : ~SameEmail(c, e))
                        => threads[c].error = "Username already taken"
            /\ (\A d \in Callers : threads[d].pc \in {"idle", "done"})
                  => \/ c \in Created
                     \/ \E d \in Created : SameEmail(c, d) \/ SameHandle(c, d)

\* C17: user creation is atomic and the store is thread-safe: with the
\* check, hash and insert statements of concurrent create_user calls
\* interleaved, exactly one of two calls with the same email (handle)
\* succeeds and the other raises the error of the taken email (handle), no
\* two records share an email or a handle, and no reader sees a record
\* without both index entries or an index entry without its record.
C17_CreateAtomic ==
    /\ C17_NoSharedKey
    /\ C17_NoPartialCreate
    /\ C17_OneCreateWins

\* the session flow of a user registered now: login with the registered
\* credentials, a protected check, a refresh at t2, a logout at t3 with the
\* access token of the refresh, and the protected checks after it
SessionFlow(email, username, password, identifier, t2, t3) ==
    LET reg == register(user_store, ids_drawn + 1, email, username, password)
        li == login(reg.store, identifier, password, now)
        access == The(li.resp.access_token)
        refresh == The(li.resp.refresh_token)
        re == refresh_token(li.store, refresh, t2)
        newAccess == The(re.resp.access_token)
        newRefresh == The(re.resp.refresh_token)
        lo == logout(re.store, newAccess, t3)
    IN reg.resp.status = 201 =>
          /\ li.resp.status = 200
          /\ li.resp.access_token # None /\ li.resp.refresh_token # None
          /\ access.type = "access" /\ refresh.type = "refresh"
          /\ get_current_user(li.store, access, now).ret = Some(ids_drawn + 1)
          /\ re.resp.status = 200
          /\ re.resp.access_token # None /\ re.resp.refresh_token # None
          /\ newAccess # access /\ newRefresh # refresh
          /\ lo.resp.status = 200
          /\ \A t \in t3 .. Horizon :
                /\ get_current_user(lo.store, newAccess, t).ret = None
                /\ get_current_active_user(lo.store, newAccess, t).ret = None
                /\ get_admin_user(lo.store, newAccess, t).ret = None

\* the times a token issued now is still an unexpired access token
WhileFresh(t) == t .. t + Minutes(ACCESS_TOKEN_EXPIRE_MINUTES) - 1

\* C18: for a freshly registered user, login with the registered credentials
\* returns an access and a refresh token; that access token is accepted by a
\* protected check; refresh with that refresh token returns a new pair; the
\* access token of the new pair is accepted by logout; and after that logout
\* the same access token is rejected by every protected check.
C18_SessionFlow ==
    \A email \in AnyEmail, username \in AnyHandle, password \in Passwords :
        \A identifier \in {email, username}, t2 \in WhileFresh(now) :
            \A t3 \in WhileFresh(t2) :
                SessionFlow(email, username, password, identifier, t2, t3)

\* the spellings of the handle a user is stored under
Casings(username) ==
    {h \in AnyHandle \cup {"Admin", "ALICE"} : Lower(h) = username}

\* a login answered with an access and a refresh token of the user
LogsIn(S, identifier, password, t, user_id) ==
    LET out == login(S, identifier, password, t)
    IN /\ out.resp.status = 200
       /\ out.resp.access_token # None /\ out.resp.refresh_token # None
       /\ The(out.resp.access_token).type = "access"
       /\ The(out.resp.refresh_token).type = "refresh"
       /\ \A token \in Tokens(out.resp) : token.user_id = user_id

\* C19: a registered, unlocked user logs in with its password and either its
\* email or its handle as identifier; handles are stored lower-cased and
\* looked up case-insensitively, so that a login with any casing of the
\* handle resolves the same user and a registration with a handle that
\* differs from an existing one in case only fails with "Username already
\* taken".  The built-in admin logs in this way in the initial state.
C19_LoginByEmailOrHandle ==
    /\ \A u \in DOMAIN user_store.users :
          LET user == user_store.users[u]
          IN /\ Lower(user.username) = user.username
             /\ \A password \in Passwords :
                   (/\ verify_password(password, user.hashed_password)
                    /\ ~is_user_locked(user_store, u, now).ret)
                   => \A identifier \in {user.email} \cup Casings(user.username) :
                         /\ Resolve(user_store, identifier) = Some(u)
                         /\ LogsIn(user_store, identifier, password, now, u)
             /\ \A username \in Casings(user.username), email \in AnyEmail,
                   password \in Passwords :
                   register(user_store, ids_drawn + 1, email, username, password)
                       = [store |-> user_store,
                          resp |-> Response(400,
                                      IF email \in DOMAIN user_store.email_index
                                      THEN "Email already registered"
                                      ELSE "Username already taken")]
    /\ \A identifier \in {ADMIN_EMAIL} \cup Casings(ADMIN_USERNAME) :
          LogsIn(NewStore, identifier, ADMIN_PASSWORD, 0, ADMIN_ID)

\* a user who registered and has logged in stands next to the admin, and
\* its handle has another casing than the stored one
C19_Witness ==
    \E u \in DOMAIN user_store.users \ {ADMIN_ID} :
        /\ ADMIN_ID \in DOMAIN user_store.users
        /\ user_store.users[u].last_login # None
        /\ Casings(user_store.users[u].username)
               # {user_store.users[u].username}

\* the lifetimes create_token is called with, in clock ticks
MaxDelta == Hours(RESET_TOKEN_EXPIRE_HOURS)
Deltas == 1 .. MaxDelta

RedeemServed(c) ==
    /\ calls[c].st = "pending" /\ calls'[c].st = "done"
    /\ calls'[c].resp.status = 200

\* C21_AllOrNothing: the step that answers a redeem with success applies the
\* four effects together, and no other step applies any of the two that are
\* the redeem's own: the hash stays and the reset token stays unless it has
\* expired.
C21_AllOrNothing ==
    \A reset_token \in DOMAIN user_store.password_reset_tokens :
        LET u == user_store.password_reset_tokens[reset_token].user_id
            before == user_store.users[u]
            after == user_store'.users[u]
        IN /\ \A c \in Callers :
                 (RedeemServed(c) /\ calls[c].token = Some(reset_token)) =>
                    /\ verify_password(calls[c].password, after.hashed_password)
                    /\ after.failed_login_attempts = 0
                    /\ after.locked_until = None
                    /\ LedgerOf(user_store', u) = {}
                    /\ LedgerOf(user_store, u)
                           \subseteq user_store'.blacklisted_tokens
                    /\ reset_token \notin DOMAIN user_store'.password_reset_tokens
           /\ (\A c \in Callers : ~RedeemServed(c)) =>
                    /\ after.hashed_password = before.hashed_password
                    /\ \/ reset_token \in DOMAIN user_store'.password_reset_tokens
                       \/ now > user_store.password_reset_tokens[reset_token].expires_at

\* the concurrent redeems that were answered with success
Redeemed == {c \in Callers : calls[c].st = "done" /\ calls[c].resp.status = 200}

\* C21: a successful redeem is atomic with respect to the concurrent session
\* operations on its user.  Every state a concurrent login, refresh or redeem
\* observes has all four effects of a redeem (hash updated, lockout cleared,
\* refresh tokens revoked, reset token deleted) or none of them; and of the
\* concurrent redeems with one reset token at most one succeeds, every other
\* one failing with 400 "Invalid or expired reset token".
C21_RedeemAtomic ==
    /\ [][C21_AllOrNothing]_vars
    /\ [](/\ Cardinality(Redeemed) <= 1
          /\ \A c \in Callers :
                (calls[c].st = "done" /\ c \notin Redeemed) =>
                   calls[c].resp = Response(400, "Invalid or expired reset token"))

\* of the concurrent redeems of one reset token, all answered, one succeeded
\* with a password that was not the user's, and the refresh tokens of the
\* user were revoked with it
C21_Witness ==
    /\ \A c \in Callers : calls[c].st = "done"
    /\ \E c \in Redeemed :
          /\ calls[c].password # ADMIN_PASSWORD
          /\ verify_password(calls[c].password,
                             user_store.users[ADMIN_ID].hashed_password)
    /\ \E token \in user_store.blacklisted_tokens : token.type = "refresh"

\* the policy a password is accepted under: the minimum length, a digit, an
\* uppercase and a lowercase character
Strong(password) ==
    /\ Len(password) >= PASSWORD_MIN_LENGTH
    /\ HasDigit(password) /\ HasUpper(password) /\ HasLower(password)

\* the answers to a registration with the password, confirmed, and with an
\* email and a handle nobody uses
Answers(password) ==
    {post_register(user_store, ids_drawn + 1, email, username, password, password) :
        email \in CreateEmails \ DOMAIN user_store.email_index,
        username \in {h \in AnyHandle :
                         Lower(h) \notin DOMAIN user_store.username_index}}

WithLockout(S, u, n, locked_until) ==
    [S EXCEPT !.users[u].failed_login_attempts = n,
              !.users[u].locked_until = locked_until]

\* C23: lockout transitions.  increment_failed_login raises the counter of
\* the user by exactly 1 and sets lock-until to now + 15 minutes if and only
\* if the resulting counter has reached the threshold (5), leaving lock-until
\* as it was otherwise; reset_failed_login sets the counter to 0 and clears
\* lock-until; neither touches another field of the user, another user, an
\* index, the ledger, the blacklist or the reset tokens.
C23_LockoutTransitions ==
    \A u \in DOMAIN user_store.users :
        LET user == user_store.users[u]
            n == user.failed_login_attempts + 1
            failed == increment_failed_login(user_store, u, now)
            reset == reset_failed_login(user_store, u)
        IN /\ failed.users[u].failed_login_attempts = n
           /\ n >= MAX_LOGIN_ATTEMPTS <=>
                 failed.users[u].locked_until
                     = Some(now + Minutes(LOGIN_TIMEOUT_MINUTES))
           /\ n < MAX_LOGIN_ATTEMPTS =>
                 failed.users[u].locked_until = user.locked_until
           /\ failed = WithLockout(user_store, u,
                                   failed.users[u].failed_login_attempts,
                                   failed.users[u].locked_until)
           /\ reset.users[u].failed_login_attempts = 0
           /\ reset.users[u].locked_until = None
           /\ reset = WithLockout(user_store, u, 0, None)
           /\ \A v \in DOMAIN user_store.users \ {u} :
                 /\ failed.users[v] = user_store.users[v]
                 /\ reset.users[v] = user_store.users[v]

\* a user is one failure from the threshold while another user has failures
\* counted too, and a session is recorded in the ledger
C23_Witness ==
    \E u \in DOMAIN user_store.users, v \in DOMAIN user_store.users :
        /\ u # v
        /\ user_store.users[u].failed_login_attempts = MAX_LOGIN_ATTEMPTS - 1
        /\ user_store.users[u].locked_until = None
        /\ user_store.users[v].failed_login_attempts > 0
        /\ DOMAIN user_store.refresh_tokens # {}

\* C24: is_user_locked is a read with lazy expiry.  While now < lock-until it
\* returns true and changes nothing; when lock-until is set and has elapsed
\* it returns false and clears lock-until and the failed-attempt counter of
\* the user, changing nothing else; when no lock is set it returns false and
\* changes nothing at any later time, so that failures below the threshold
\* never expire.  get_stats reads it for every user, with the same effect.
C24_LazyExpiry ==
    /\ \A u \in DOMAIN user_store.users, t \in Later :
          LET user == user_store.users[u]
              out == is_user_locked(user_store, u, t)
          IN /\ (user.locked_until # None /\ t < The(user.locked_until)) =>
                   out = [store |-> user_store, ret |-> TRUE]
             /\ (user.locked_until # None /\ ~(t < The(user.locked_until))) =>
                   /\ out.ret = FALSE
                   /\ out.store.users[u].locked_until = None
                   /\ out.store.users[u].failed_login_attempts = 0
                   /\ out.store = WithLockout(user_store, u, 0, None)
             /\ user.locked_until = None =>
                   out = [store |-> user_store, ret |-> FALSE]
             /\ get_stats(user_store, t).users[u] = out.store.users[u]
    /\ \A u \in DOMAIN user_store.users :
          user_store.users[u].failed_login_attempts >= MAX_LOGIN_ATTEMPTS
             => user_store.users[u].locked_until # None

\* the lock of one user has elapsed and was not looked at since, and another
\* user has failures below the threshold, counted while time went on
C24_Witness ==
    \E u \in DOMAIN user_store.users, v \in DOMAIN user_store.users :
        /\ user_store.users[u].locked_until # None
        /\ ~(now < The(user_store.users[u].locked_until))
        /\ user_store.users[u].failed_login_attempts = MAX_LOGIN_ATTEMPTS
        /\ user_store.users[v].locked_until = None
        /\ user_store.users[v].failed_login_attempts
               \in 1 .. MAX_LOGIN_ATTEMPTS - 1
        /\ hist.fails[v].n > 0 /\ now > 0

\* C25: order of checks in login.  For a user whose lock has not elapsed a
\* login fails with 423 Locked whatever the password, the correct one
\* included, and changes nothing: the failed-attempt counter, lock-until,
\* last-login, the ledger and the blacklist stay as they are, so attempts
\* during the lock neither count nor extend it.
C25_LockedBeforePassword ==
    \A u \in DOMAIN user_store.users, t \in Later :
        LET user == user_store.users[u]
        IN (user.locked_until # None /\ t < The(user.locked_until)) =>
              \A username \in {user.email, user.username}, password \in Passwords :
                  LET out == login(user_store, username, password, t)
                  IN /\ out.resp.status = 423
                     /\ out.resp.access_token = None
                     /\ out.resp.refresh_token = None
                     /\ out.store.users[u].failed_login_attempts
                            = user.failed_login_attempts
                     /\ out.store.users[u].locked_until = user.locked_until
                     /\ out.store.users[u].last_login = user.last_login
                     /\ out.store.refresh_tokens = user_store.refresh_tokens
                     /\ out.store.blacklisted_tokens = user_store.blacklisted_tokens
                     /\ out.store = user_store

\* a locked user who has logged in before was refused as locked, and the
\* lock has not elapsed
C25_Witness ==
    \E u \in DOMAIN user_store.users :
        /\ user_store.users[u].locked_until # None
        /\ now < The(user_store.users[u].locked_until)
        /\ user_store.users[u].last_login # None
        /\ LedgerOf(user_store, u) # {}
        /\ hist.fails[u].seen = "locked"

\* C26: a successful login of user u resets the failed-attempt counter of u
\* to 0 and clears the lock, sets last-login, and records the returned
\* refresh token in the ledger with owner u and expiry now + 7 days; it
\* blacklists nothing and removes no ledger entry, so that the earlier
\* sessions of u stay valid, and it changes nothing else.  A login that fails
\* with bad credentials changes the counter and lock-until of u only, and
\* nothing when the identifier is unknown.
C26_LoginEffects ==
    \A username \in Emails \cup Usernames, password \in Passwords :
        LET out == login(user_store, username, password, now)
            found == Resolve(user_store, username)
            u == The(found)
            after == out.store.users[u]
        IN /\ out.resp.status = 200 =>
                 LET refresh == The(out.resp.refresh_token)
                 IN /\ found # None
                    /\ after.failed_login_attempts = 0
                    /\ after.locked_until = None
                    /\ after.last_login = Some(now)
                    /\ refresh.type = "refresh" /\ refresh.user_id = u
                    /\ out.store.refresh_tokens[refresh]
                           = [user_id |-> u,
                              expires_at |-> now + Days(REFRESH_TOKEN_EXPIRE_DAYS),
                              usec |-> usec]
                    /\ out.store.blacklisted_tokens = user_store.blacklisted_tokens
                    /\ \A old \in DOMAIN user_store.refresh_tokens :
                          /\ old \in DOMAIN out.store.refresh_tokens
                          /\ out.store.refresh_tokens[old]
                                 = user_store.refresh_tokens[old]
                          /\ validate_refresh_token(out.store, old, now).ret
                                 = validate_refresh_token(user_store, old, now).ret
                    /\ DOMAIN out.store.refresh_tokens
                           = DOMAIN user_store.refresh_tokens \cup {refresh}
                    /\ out.store
                           = [user_store EXCEPT
                                 !.users[u].failed_login_attempts = 0,
                                 !.users[u].locked_until = None,
                                 !.users[u].last_login = Some(now),
                                 !.refresh_tokens = out.store.refresh_tokens]
           /\ (out.resp.status = 401 /\ found # None) =>
                 out.store = WithLockout(user_store, u,
                                         after.failed_login_attempts,
                                         after.locked_until)
           /\ found = None => out.store = user_store /\ out.resp.status = 401

\* a user with failures counted and a session of an earlier second in the
\* ledger can log in, and another user exists
C26_Witness ==
    \E u \in DOMAIN user_store.users, old \in DOMAIN user_store.refresh_tokens :
        /\ DOMAIN user_store.users # {u}
        /\ user_store.refresh_tokens[old].user_id = u
        /\ old.iat < now
        /\ user_store.users[u].failed_login_attempts > 0
        /\ \E password \in Passwords :
              login(user_store, user_store.users[u].email, password,
                    now).resp.status = 200

\* the refresh tokens a lookup can be made with
Known == issued \cup DOMAIN user_store.refresh_tokens
                \cup user_store.blacklisted_tokens

\* the times of a lookup: now, and the expiry of each ledger entry and the
\* tick after it
LookupTimes ==
    {now} \cup {t \in UNION {{user_store.refresh_tokens[token].expires_at,
                              user_store.refresh_tokens[token].expires_at + 1} :
                                 token \in DOMAIN user_store.refresh_tokens} :
                   t >= now}

\* C27: validate_refresh_token returns the owning user id only if the token
\* is not blacklisted, has a ledger entry and that entry has not expired,
\* and then it does; otherwise it returns None.  A lookup that finds the
\* entry expired (now > expires_at) removes it from the ledger; every other
\* lookup leaves the ledger unchanged, and no lookup changes the blacklist or
\* anything else.
C27_LedgerValidate ==
    \A token \in Known, t \in LookupTimes :
        LET out == validate_refresh_token(user_store, token, t)
            listed == token \in user_store.blacklisted_tokens
            held == token \in DOMAIN user_store.refresh_tokens
            expired == Past(user_store.refresh_tokens[token], t)
        IN /\ out.ret # None <=> (~listed /\ held /\ ~expired)
           /\ out.ret # None =>
                 out.ret = Some(user_store.refresh_tokens[token].user_id)
           /\ (~listed /\ held /\ expired) =>
                 /\ token \notin DOMAIN out.store.refresh_tokens
                 /\ out.store = [user_store EXCEPT
                                    !.refresh_tokens = Pop(@, {token})]
           /\ ~(~listed /\ held /\ expired) => out.store = user_store
           /\ out.store.blacklisted_tokens = user_store.blacklisted_tokens

\* the ledger holds an entry that has expired and is not blacklisted, next to
\* a blacklisted one
C27_Witness ==
    \E token \in DOMAIN user_store.refresh_tokens,
       other \in DOMAIN user_store.refresh_tokens :
        /\ token \notin user_store.blacklisted_tokens
        /\ Past(user_store.refresh_tokens[token], now)
        /\ other \in user_store.blacklisted_tokens

\* C28: cleanup_user_tokens(user_id) removes from the ledger every entry
\* owned by user_id and adds each of those tokens to the blacklist; it
\* leaves the entries of all other users, and everything else, untouched;
\* calling it again, or for a user with no entries, changes nothing.
C28_RevokeAll ==
    \A u \in UserIds :
        LET S1 == cleanup_user_tokens(user_store, u)
            owned == LedgerOf(user_store, u)
        IN /\ LedgerOf(S1, u) = {}
           /\ S1.blacklisted_tokens = user_store.blacklisted_tokens \cup owned
           /\ DOMAIN S1.refresh_tokens = DOMAIN user_store.refresh_tokens \ owned
           /\ \A token \in DOMAIN user_store.refresh_tokens \ owned :
                 S1.refresh_tokens[token] = user_store.refresh_tokens[token]
           /\ S1 = [user_store EXCEPT
                       !.refresh_tokens = S1.refresh_tokens,
                       !.blacklisted_tokens = S1.blacklisted_tokens]
           /\ cleanup_user_tokens(S1, u) = S1
           /\ owned = {} => S1 = user_store

\* two users have sessions in the ledger, none of them revoked
C28_Witness ==
    \E u \in UserIds, v \in UserIds :
        /\ u # v
        /\ LedgerOf(user_store, u) # {}
        /\ LedgerOf(user_store, u) \cap user_store.blacklisted_tokens = {}
        /\ LedgerOf(user_store, v) # {}
        /\ LedgerOf(user_store, v) \cap user_store.blacklisted_tokens = {}

\* C29: the blacklist grows monotonically.  No step of the service removes a
\* token from it; blacklist_token adds its token and is idempotent; and so a
\* refresh token that is in the blacklist is not returned as valid by
\* validate_refresh_token, nor an access token in it accepted by a protected
\* check, at any later time.
C29_BlacklistMonotone ==
    /\ [][\A token \in user_store.blacklisted_tokens :
             token \in user_store'.blacklisted_tokens]_vars
    /\ [](\A token \in Known :
             LET once == blacklist_token(user_store, token)
             IN /\ once.blacklisted_tokens
                       = user_store.blacklisted_tokens \cup {token}
                /\ blacklist_token(once, token) = once
                /\ is_token_blacklisted(once, token)
                /\ token \in user_store.blacklisted_tokens => once = user_store)
    /\ [](\A token \in user_store.blacklisted_tokens, t \in Later :
             /\ validate_refresh_token(user_store, token, t).ret = None
             /\ get_current_user(user_store, token, t).ret = None)

\* the blacklist holds an access token and a refresh token that were revoked
\* at different times, and both are still unexpired
C29_Witness ==
    \E access \in user_store.blacklisted_tokens,
       refresh \in user_store.blacklisted_tokens :
        /\ access.type = "access" /\ refresh.type = "refresh"
        /\ access.iat # refresh.iat
        /\ decode_token(access, now) # None /\ decode_token(refresh, now) # None

\* the failure of a refresh for a user who is gone or inactive
UserInactive == Response(401, "User not found or inactive")

\* is the owner of the token gone or inactive
OwnerInactive(token) ==
    \/ token.user_id \notin DOMAIN user_store.users
    \/ ~user_store.users[token.user_id].is_active

\* C30 as stated: a refresh with a refresh token whose owner is inactive or
\* no longer exists fails with "User not found or inactive" and performs no
\* rotation.
C30_InactiveOwnerFails ==
    \A token \in issued :
        (token.type = "refresh" /\ OwnerInactive(token)) =>
            refresh_token(user_store, token, now)
                = [store |-> user_store, resp |-> UserInactive]

\* C30 amended: a refresh with a refresh token whose owner is inactive or no
\* longer exists performs no rotation: it fails with 401, returns no token,
\* blacklists nothing and leaves the ledger, the blacklist and all else
\* unchanged.  The failure is "User not found or inactive" when the ledger
\* holds the token as valid, which is the case of a token of a login made
\* after the deactivation; a token issued before the deactivation or the
\* deletion was revoked with it and fails "Invalid refresh token".
C30_InactiveOwnerNoRotation ==
    \A token \in issued :
        (token.type = "refresh" /\ OwnerInactive(token)) =>
            LET out == refresh_token(user_store, token, now)
                valid == validate_refresh_token(user_store, token, now).ret
            IN /\ out.resp.status = 401
               /\ out.resp.access_token = None /\ out.resp.refresh_token = None
               /\ out.store.blacklisted_tokens = user_store.blacklisted_tokens
               /\ out.store.refresh_tokens = user_store.refresh_tokens
               /\ out.store = user_store
               /\ valid # None => out.resp = UserInactive
               /\ (valid = None /\ decode_token(token, now) # None) =>
                     out.resp = Response(401, "Invalid refresh token")
               /\ token.user_id \notin DOMAIN user_store.users => valid = None

\* a deactivated user has logged in since, and the ledger holds the refresh
\* token of that login as valid
C30_Witness ==
    \E token \in issued :
        /\ token.type = "refresh"
        /\ token.user_id \in DOMAIN user_store.users
        /\ ~user_store.users[token.user_id].is_active
        /\ validate_refresh_token(user_store, token, now).ret = Some(token.user_id)

\* C31: a change of password with a wrong current password fails with 400
\* "Incorrect current password" and changes no state: the password hash of
\* the user, the ledger and the blacklist, and the failed-attempt counter and
\* lock-until of the user are what they were, so that wrong current passwords
\* never count towards a lockout.
C31_WrongCurrentPassword ==
    \A token \in issued, current_password \in Passwords, new_password \in Passwords :
        LET current_user == get_current_active_user(user_store, token, now)
            out == change_password(user_store, token, current_password,
                                   new_password, now)
        IN (/\ current_user.ret # None
            /\ ~verify_password(current_password,
                   user_store.users[The(current_user.ret)].hashed_password))
           => LET u == The(current_user.ret)
              IN /\ out.resp = Response(400, "Incorrect current password")
                 /\ out.store.users[u].hashed_password
                        = user_store.users[u].hashed_password
                 /\ out.store.refresh_tokens = user_store.refresh_tokens
                 /\ out.store.blacklisted_tokens = user_store.blacklisted_tokens
                 /\ out.store.users[u].failed_login_attempts
                        = user_store.users[u].failed_login_attempts
                 /\ out.store.users[u].locked_until = user_store.users[u].locked_until
                 /\ out.store = user_store

\* a user one failed login short of the lock, with a recorded refresh token,
\* presents a valid access token and a wrong current password
C31_Witness ==
    \E token \in issued, current_password \in Passwords :
        LET current_user == get_current_active_user(user_store, token, now)
        IN /\ current_user.ret # None
           /\ ~verify_password(current_password,
                  user_store.users[The(current_user.ret)].hashed_password)
           /\ user_store.users[The(current_user.ret)].failed_login_attempts
                  = MAX_LOGIN_ATTEMPTS - 1
           /\ LedgerOf(user_store, The(current_user.ret)) # {}

\* the reset token secrets.token_urlsafe draws next: one no record has
NextResetToken == Cardinality(DOMAIN reset_sent) + 1

\* C32: a reset request for an email that resolves to no user returns no
\* token and creates no reset record (no state changes); for a known email it
\* returns a token and creates exactly one new reset record, owned by that
\* user and expiring one hour after the request, and changes nothing else:
\* the earlier reset records, the users (password, lockout state), the
\* indices, the ledger and the blacklist are what they were.
C32_RequestEffects ==
    \A email \in AnyEmail :
        LET reset_token == NextResetToken
            out == request_password_reset(user_store, reset_token, email, now)
            user == get_user_by_email(user_store, email)
        IN IF user = None
           THEN out.ret = None /\ out.store = user_store
           ELSE /\ out.ret = Some(reset_token)
                /\ DOMAIN out.store.password_reset_tokens
                       = DOMAIN user_store.password_reset_tokens \cup {reset_token}
                /\ reset_token \notin DOMAIN user_store.password_reset_tokens
                /\ out.store.password_reset_tokens[reset_token]
                       = [user_id |-> The(user),
                          expires_at |-> now + Hours(RESET_TOKEN_EXPIRE_HOURS)]
                /\ \A old \in DOMAIN user_store.password_reset_tokens :
                       out.store.password_reset_tokens[old]
                           = user_store.password_reset_tokens[old]
                /\ out.store.users = user_store.users
                /\ out.store.refresh_tokens = user_store.refresh_tokens
                /\ out.store.blacklisted_tokens = user_store.blacklisted_tokens
                /\ [out.store EXCEPT !.password_reset_tokens =
                        user_store.password_reset_tokens] = user_store

\* a reset record was created for a user who has failed logins counted and a
\* refresh token recorded, and another request for the user would be the
\* second
C32_Witness ==
    \E reset_token \in DOMAIN user_store.password_reset_tokens :
        LET u == user_store.password_reset_tokens[reset_token].user_id
        IN /\ reset_token \in DOMAIN reset_sent
           /\ u \in DOMAIN user_store.users
           /\ user_store.password_reset_tokens[reset_token].expires_at
                  = reset_sent[reset_token].at + Hours(RESET_TOKEN_EXPIRE_HOURS)
           /\ user_store.users[u].failed_login_attempts > 0
           /\ LedgerOf(user_store, u) # {}
           /\ get_user_by_email(user_store, user_store.users[u].email) = Some(u)

\* are the tokens of a token response usable in the store the request left,
\* given the blacklist it found
Usable(revoked, out) ==
    out.resp.status = 200 =>
        LET access == The(out.resp.access_token)
            refresh == The(out.resp.refresh_token)
        IN /\ refresh \in DOMAIN out.store.refresh_tokens
           /\ ~is_token_blacklisted(out.store, refresh)
           /\ refresh \notin revoked
           /\ ~is_token_blacklisted(out.store, access)

\* C33: every successful login or refresh returns tokens that are usable at
\* the moment they are returned: the refresh token is in the ledger, not
\* blacklisted and not one of the tokens revoked before, and the access token
\* is not blacklisted; for every timing of the calls, a refresh or a logout
\* and login of the same user in the clock second of the previous issuance
\* included.
C33_IssuedUsable ==
    /\ \A username \in Emails \cup Usernames, password \in Passwords :
          Usable(user_store.blacklisted_tokens,
                 login(user_store, username, password, now))
    /\ \A token \in issued :
          Usable(user_store.blacklisted_tokens,
                 refresh_token(user_store, token, now))

\* C34: in every reachable state the failed-attempt counter of every user
\* lies between 0 and the threshold (5), and lock-until is set only when the
\* counter is at the threshold: a counter below the threshold has no lock.
C34_CounterBounded ==
    \A u \in DOMAIN user_store.users :
        LET user == user_store.users[u]
        IN /\ user.failed_login_attempts \in 0 .. MAX_LOGIN_ATTEMPTS
           /\ user.locked_until # None =>
                  user.failed_login_attempts = MAX_LOGIN_ATTEMPTS
           /\ user.failed_login_attempts < MAX_LOGIN_ATTEMPTS =>
                  user.locked_until = None

\* a user at the threshold is locked and has been refused a login since
C34_Witness ==
    \E u \in DOMAIN user_store.users :
        /\ user_store.users[u].failed_login_attempts = MAX_LOGIN_ATTEMPTS
        /\ user_store.users[u].locked_until # None
        /\ hist.fails[u].seen = "locked"

\* the users that are not active
Inactive == {u \in DOMAIN user_store.users : ~user_store.users[u].is_active}

\* C35: whenever a user is inactive, the ledger holds no usable refresh token
\* (not blacklisted and not expired) owned by that user; a login of an
\* inactive user returns no tokens and records none; so no refresh token of
\* an inactive user is accepted by refresh once the user is active again.
C35_InactiveHoldsNoToken ==
    \A u \in Inactive :
        /\ \A token \in LedgerOf(user_store, u) :
               \/ is_token_blacklisted(user_store, token)
               \/ Past(user_store.refresh_tokens[token], now)
        /\ \A username \in Emails \cup Usernames, password \in Passwords :
               Resolve(user_store, username) = Some(u) =>
                   LET out == login(user_store, username, password, now)
                   IN /\ Tokens(out.resp) = {}
                      /\ out.store.refresh_tokens = user_store.refresh_tokens
        /\ \A token \in IssuedTo(u), t \in Later :
               LET on == update_user(user_store, u, [is_active |-> TRUE])
               IN refresh_token(on, token, t).resp.status = 401

\* does the protected check accept the token at time t
Accepts(S, token, t) == get_current_user(S, token, t).ret # None

\* the tokens clients present: those issued, and each with a signature made
\* with another key
Presented == issued \cup {[token EXCEPT !.sig = "forged"] : token \in issued}

\* the protected check accepts exactly the tokens that are not blacklisted,
\* carry a valid signature, are unexpired, are access tokens, and whose user
\* exists and is active; and it returns that user
C36_AcceptsExactly ==
    \A token \in Presented, t \in Later :
        /\ Accepts(user_store, token, t) <=>
              /\ token \notin user_store.blacklisted_tokens
              /\ token.sig = SECRET_KEY
              /\ ~(token.exp < t)
              /\ token.type = "access"
              /\ token.user_id \in DOMAIN user_store.users
              /\ user_store.users[token.user_id].is_active
        /\ Accepts(user_store, token, t) =>
              get_current_user(user_store, token, t).ret = Some(token.user_id)

\* C36: a protected check accepts an access token if and only if the token
\* is not blacklisted, its signature is valid and it is unexpired, its kind
\* is access, its user exists and that user is active.  Hence the only
\* operations that make a still-unexpired access token rejected are a logout
\* or account deletion presenting that very token, the deletion of its user,
\* and the deactivation of its user, for as long as the user stays inactive.
C36_ProtectedCheck ==
    /\ []C36_AcceptsExactly
    /\ [][
        \A token \in issued :
            (/\ Accepts(user_store, token, now)
             /\ ~Accepts(user_store', token, now')
             /\ decode_token(token, now') # None)
            => \/ user_store' = logout(user_store, token, now).store
               \/ user_store' = delete_account(user_store, token, now).store
               \/ token.user_id \notin DOMAIN user_store'.users
               \/ ~user_store'.users[token.user_id].is_active]_vars

\* an unexpired access token that is not blacklisted is rejected because its
\* user was deactivated, while the token of another user is accepted
C36_Witness ==
    \E token \in issued, other \in issued :
        /\ token.type = "access"
        /\ decode_token(token, now) # None
        /\ ~is_token_blacklisted(user_store, token)
        /\ token.user_id \in DOMAIN user_store.users
        /\ ~user_store.users[token.user_id].is_active
        /\ ~Accepts(user_store, token, now)
        /\ Accepts(user_store, other, now)

\* C37: in every reachable state the owner id of every ledger entry is the
\* id of a live user record: no refresh token is recorded for a user that
\* does not exist, and none survives the deletion of its user.
C37_LedgerOwnersLive ==
    /\ \A token \in DOMAIN user_store.refresh_tokens :
          user_store.refresh_tokens[token].user_id \in DOMAIN user_store.users
    /\ \A token \in issued :
          LET gone == delete_account(user_store, token, now)
              again == refresh_token(user_store, token, now)
          IN /\ \A entry \in DOMAIN gone.store.refresh_tokens :
                    gone.store.refresh_tokens[entry].user_id
                        \in DOMAIN gone.store.users
             /\ \A entry \in DOMAIN again.store.refresh_tokens :
                    again.store.refresh_tokens[entry].user_id
                        \in DOMAIN again.store.users

\* a registered user whose refresh token was recorded has deleted the
\* account, and the ledger still holds an entry of the administrator
C37_Witness ==
    /\ \E token \in issued :
          /\ token.type = "refresh"
          /\ token.user_id \notin DOMAIN user_store.users
          /\ token \in user_store.blacklisted_tokens
    /\ \E entry \in DOMAIN user_store.refresh_tokens :
          user_store.refresh_tokens[entry].user_id = ADMIN_ID
    /\ ADMIN_ID \in DOMAIN user_store.users

\* has the step revoked the ledger entry of the token: the entries of its
\* owner are gone and the token is blacklisted (cleanup_user_tokens)
RevokedByStep(token) ==
    /\ token \in user_store'.blacklisted_tokens
    /\ LedgerOf(user_store', user_store.refresh_tokens[token].user_id) = {}

\* has the step evicted the entry of the token as expired: the lookup of a
\* refresh presenting it
EvictedByStep(token) ==
    /\ Past(user_store.refresh_tokens[token], now)
    /\ refresh_token(user_store, token, now).resp
           = Response(401, "Invalid refresh token")
    /\ user_store' = refresh_token(user_store, token, now).store
    /\ user_store' = [user_store EXCEPT !.refresh_tokens = Pop(@, {token})]

\* a successful refresh leaves the ledger entry of the rotated token in
\* place and blacklists the token
C38_RotationKeepsEntry ==
    \A token \in issued :
        LET out == refresh_token(user_store, token, now)
        IN out.resp.status = 200 =>
              /\ token \in DOMAIN out.store.refresh_tokens
              /\ token \in out.store.blacklisted_tokens
              /\ DOMAIN user_store.refresh_tokens
                     \subseteq DOMAIN out.store.refresh_tokens

\* a refresh presenting a token whose ledger entry has expired fails at the
\* parsing of the token and leaves the entry in the ledger
C38_ExpiredFailsAtParsing ==
    \A token \in issued \cap DOMAIN user_store.refresh_tokens :
        Past(user_store.refresh_tokens[token], now) =>
            refresh_token(user_store, token, now)
                = [store |-> user_store,
                   resp |-> Response(401, "Could not validate credentials")]

C38_ExpiredFailsOrEvicts ==
    \A token \in issued \cap DOMAIN user_store.refresh_tokens, t \in Later :
        LET token_data == user_store.refresh_tokens[token]
            out == refresh_token(user_store, token, t)
        IN Past(token_data, t) =>
              /\ out.resp.status = 401
              /\ t > token_data.expires_at =>
                    /\ out.resp = Response(401, "Could not validate credentials")
                    /\ out.store = user_store
              /\ t = token_data.expires_at =>
                    /\ out.resp = Response(401, "Invalid refresh token")
                    /\ out.store =
                          IF is_token_blacklisted(user_store, token)
                          THEN user_store
                          ELSE [user_store EXCEPT
                                   !.refresh_tokens = Pop(@, {token})]

OutstandingOf(S, user_id) ==
    {r \in DOMAIN S.password_reset_tokens :
        S.password_reset_tokens[r].user_id = user_id}

\* C39: several reset tokens may be outstanding for one user at once.  A
\* request leaves every earlier reset record as it was; a successful redeem
\* removes the redeemed record and no other; change_password, logout and
\* deactivate leave the reset records as they were; and every outstanding
\* reset token of a user still there redeems with 200 until its expiry, once,
\* whether or not another token of the user, or one of those routes, came
\* first.
C39_OutstandingIndependent ==
    LET S == user_store
        resets == S.password_reset_tokens
        Live(r, t) == /\ r \in DOMAIN resets
                      /\ t <= resets[r].expires_at
                      /\ resets[r].user_id \in DOMAIN S.users
        Redeems(S1, r, t) ==
            \A new_password \in Passwords :
                reset_password(S1, r, new_password, t).resp.status = 200
    IN /\ \A email \in AnyEmail :
              LET out == request_password_reset(S, NextResetToken, email, now)
              IN /\ \A old \in DOMAIN resets :
                        /\ old \in DOMAIN out.store.password_reset_tokens
                        /\ out.store.password_reset_tokens[old] = resets[old]
                 /\ \A old \in DOMAIN resets :
                        Live(old, now) => Redeems(out.store, old, now)
       /\ \A r \in DOMAIN resets, t \in Later, new_password \in Passwords :
              LET out == reset_password(S, r, new_password, t)
              IN /\ Live(r, t) => out.resp.status = 200
                 /\ out.resp.status = 200 =>
                       /\ out.store.password_reset_tokens = Pop(resets, {r})
                       /\ \A again \in Passwords :
                              reset_password(out.store, r, again, t).resp.status = 400
                       /\ \A other \in OutstandingOf(S, resets[r].user_id) \ {r} :
                              Live(other, t) => Redeems(out.store, other, t)
       /\ \A token \in issued :
              /\ \A current_password \in Passwords, new_password \in Passwords :
                     LET out == change_password(S, token, current_password,
                                                new_password, now)
                     IN /\ out.store.password_reset_tokens = resets
                        /\ \A r \in DOMAIN resets :
                               Live(r, now) => Redeems(out.store, r, now)
              /\ LET out == logout(S, token, now)
                 IN /\ out.store.password_reset_tokens = resets
                    /\ \A r \in DOMAIN resets :
                           Live(r, now) => Redeems(out.store, r, now)
              /\ \A user_id \in UserIds :
                     LET out == deactivate_user(S, token, user_id, now)
                     IN /\ out.store.password_reset_tokens = resets
                        /\ \A r \in DOMAIN resets :
                               Live(r, now) => Redeems(out.store, r, now)

\* two reset tokens were sent to one user, the later one was redeemed, and the
\* earlier one is still recorded, unexpired, and redeems
C39_Witness ==
    \E first \in DOMAIN user_store.password_reset_tokens, second \in hist.redeemed :
        /\ first < second
        /\ reset_sent[first].user_id = reset_sent[second].user_id
        /\ now <= user_store.password_reset_tokens[first].expires_at
        /\ \E new_password \in Passwords :
               reset_password(user_store, first, new_password, now).resp.status = 200

\* C40: every user with role admin is active in every reachable state:
\* deactivate can be invoked only by an admin and rejects the caller's own
\* id, and no operation grants the admin role to another user, so the
\* built-in admin is removed only by deleting its own account and is never
\* deactivated.
C40_AdminNeverDeactivated ==
    \* every user of role admin is the built-in admin and is active; a
    \* deactivate succeeds only for an admin caller naming another user, and
    \* answers 400 to an admin naming itself
    /\ [](
        /\ \A user_id \in DOMAIN user_store.users :
               user_store.users[user_id].role = "admin"
                   => user_id = ADMIN_ID /\ user_store.users[user_id].is_active
        /\ \A token \in issued, user_id \in UserIds :
               LET out == deactivate_user(user_store, token, user_id, now)
                   admin == get_admin_user(user_store, token, now).ret
               IN /\ out.resp.status = 200 =>
                         /\ admin = Some(token.user_id)
                         /\ user_store.users[token.user_id].role = "admin"
                         /\ user_id # token.user_id
                         /\ ~out.store.users[user_id].is_active
                  /\ (admin # None /\ user_id = token.user_id) =>
                         out.resp.status = 400 /\ out.store = user_store)
    \* no step changes the role of a user or creates a user of role admin,
    \* and the built-in admin leaves the directory only by an account
    \* deletion presenting an access token of its own
    /\ [][
        /\ \A user_id \in DOMAIN user_store'.users :
               user_store'.users[user_id].role =
                   IF user_id \in DOMAIN user_store.users
                   THEN user_store.users[user_id].role
                   ELSE "user"
        /\ (ADMIN_ID \in DOMAIN user_store.users /\ ADMIN_ID \notin DOMAIN user_store'.users)
               => \E token \in issued :
                      /\ token.user_id = ADMIN_ID
                      /\ token.type = "access"
                      /\ delete_account(user_store, token, now).resp.status = 200
                      /\ user_store' = delete_account(user_store, token, now).store]_vars

\* another user was deactivated by the admin, and the admin, still active,
\* is answered 400 when it names itself
C40_Witness ==
    /\ ADMIN_ID \in DOMAIN user_store.users
    /\ user_store.users[ADMIN_ID].is_active
    /\ \E user_id \in DOMAIN user_store.users :
           user_id # ADMIN_ID /\ ~user_store.users[user_id].is_active
    /\ \E token \in issued :
           /\ token.user_id = ADMIN_ID
           /\ deactivate_user(user_store, token, ADMIN_ID, now).resp.status = 400

====
